---------------------------- MODULE Spec2Model ----------------------------
(***************************************************************************)
(* State-machine model of the sol_option_protocol program: series         *)
(* creation, paired minting, exercise, paired burn, post-expiry           *)
(* redemption and consideration claims over an SPL-token ledger; and of   *)
(* the spl_marketplace program: markets, limit orders with their escrow,  *)
(* fills and cancellation.                                                 *)
(*                                                                         *)
(* Unsigned 64-bit integers are modelled with a reduced width: every       *)
(* checked operation fails above U64_MAX exactly as the code's fails       *)
(* above 2^64-1, and a narrowing cast reduces modulo U64_MAX + 1.          *)
(***************************************************************************)
EXTENDS Integers, FiniteSets, Sequences, TLC

(* ------------------------------ bounds --------------------------------- *)

\* Largest value of the model's u64 (stands for 2^64 - 1).
U64_MAX == 3

\* Largest amount a caller passes to an instruction.
MaxAmount == 2

\* The clock runs over 0 .. MaxTime.
MaxTime == 2

\* Collateral and consideration alice owns in the initial state; bob owns
\* the rest of the collateral supply and no consideration.
InitCollateral == 2

InitConsideration == 2

\* Strike price and expiration of the series the callers operate on.
StrikePrice == 1

Expiration == 1

\* Largest value of the u64 of the marketplace program (stands for
\* 2^64 - 1): wide enough to hold 10^1, the scale of a mint with one decimal.
MARKET_U64_MAX == 10

\* Largest price and largest size passed to place_order; fill_order is
\* called with fill sizes up to MaxSize.
MaxPrice == 2

MaxSize == 2

\* The orders placed in a market: place_order is called while
\* next_order_id is below MaxOrders.
MaxOrders == 1

\* Base and quote tokens each user owns in the initial state.
InitBase == 2

InitQuote == 2

(* ------------------------- environment inputs -------------------------- *)

Users == {"alice", "bob"}

\* The collateral and consideration assets of the modelled series.
CollateralMint == "COLL"

ConsiderationMint == "CONS"

\* Mint::decimals of the collateral mint.
CollateralDecimals == 0


Amounts == 0 .. MaxAmount

\* Whether the build traps on arithmetic overflow of an unchecked operator
\* (overflow-checks on: the program panics) or wraps.
Builds == {"trap", "wrap"}

(* The seeds of an OptionContext address: one address per tuple.           *)
SeriesKey(cm, km, s, e, p) ==
    [collateral_mint |-> cm, consideration_mint |-> km,
     strike_price |-> s, expiration |-> e, is_put |-> p]

\* The series addresses the callers operate on.
Keys == {SeriesKey(CollateralMint, ConsiderationMint, StrikePrice, Expiration,
                   FALSE)}

\* The tuples a caller can pass to create_option: a zero strike too.
CreateKeys ==
    Keys \cup {SeriesKey(CollateralMint, ConsiderationMint, 0, Expiration, FALSE)}

\* The put on the same assets, strike and expiration: a second series.
PutKey ==
    SeriesKey(CollateralMint, ConsiderationMint, StrikePrice, Expiration, TRUE)

\* Every address of a series record in the model.
RegistryKeys == CreateKeys \cup {PutKey}

NoKey == SeriesKey("", "", 0, 0, FALSE)

(* --------------------------- token accounts ---------------------------- *)

\* A token account of the ledger: the asset it holds (kind, and the series
\* for a series' own mints) and its owner.
TokenAccount(kind, k, owner) == [kind |-> kind, series |-> k, owner |-> owner]

UserCollateralAccount(u) == TokenAccount("collateral", NoKey, u)

UserConsiderationAccount(u) == TokenAccount("consideration", NoKey, u)

UserOptionAccount(k, u) == TokenAccount("option", k, u)

UserRedemptionAccount(k, u) == TokenAccount("redemption", k, u)

CollateralVault(k) == TokenAccount("collateral", k, "option_context")

ConsiderationVault(k) == TokenAccount("consideration", k, "option_context")

\* The mint of the series' option (long) and redemption (short) tokens.
OptionMint(k) == TokenAccount("option", k, "mint")

RedemptionMint(k) == TokenAccount("redemption", k, "mint")

NoAccount == TokenAccount("", NoKey, "")

TokenAccounts ==
    {UserCollateralAccount(u) : u \in Users}
    \cup {UserConsiderationAccount(u) : u \in Users}
    \cup {UserOptionAccount(k, u) : k \in Keys, u \in Users}
    \cup {UserRedemptionAccount(k, u) : k \in Keys, u \in Users}
    \cup {CollateralVault(k) : k \in Keys}
    \cup {ConsiderationVault(k) : k \in Keys}

(* ------------------------ marketplace addresses ------------------------ *)

\* The two mints a market is created for.
BaseMint == "BASE"

QuoteMint == "QUOTE"

MarketMints == {BaseMint, QuoteMint}

\* Mint::decimals a mint can have.
Decimals == {0, 1}

Prices == 0 .. MaxPrice

Sizes == 0 .. MaxSize

\* An address: a user's key, a user's token account of a mint, or a
\* program-derived address of the marketplace.
Address(kind, name, id) == [kind |-> kind, name |-> name, id |-> id]

UserKey(u) == Address("user", u, 0)

\* The token account of mint m that user u owns.
UserTokenAccount(m, u) == Address(m, u, 0)

\* seeds = [b"market", base_mint, quote_mint]
MarketKey(base, quote) == [base_mint |-> base, quote_mint |-> quote]

\* The market the callers trade in.
TheMarket == MarketKey(BaseMint, QuoteMint)

\* seeds = [b"order", market, order_id] in the market of the model.
OrderKey(id) == Address("order", "", id)

\* seeds = [b"escrow", order]
EscrowKey(o) == Address("escrow", "", o.id)

NoAddress == Address("", "", 0)

OrderKeys == {OrderKey(id) : id \in 0 .. MaxOrders - 1}

UserTokenAccounts == {UserTokenAccount(m, u) : m \in MarketMints, u \in Users}

LedgerAccounts == UserTokenAccounts \cup {EscrowKey(o) : o \in OrderKeys}

(* ------------------------------- state --------------------------------- *)

VARIABLES
    now,             \* Clock::get()?.unix_timestamp
    option_context,  \* the OptionData account at each series address
    token,           \* the amount of every token account
    last,            \* the last instruction processed and its result
    before_mint,     \* the accounts as they were before a successful mint
    math,            \* a call of a utils/math function: arguments and result
    redeem_calls,    \* the redeem calls that succeeded since the last mint,
                     \* exercise or burn did (counted where a property needs it)
    vault_mint,      \* TokenAccount::mint of the two vaults of each series
    mint_decimals,   \* Mint::decimals of the mints of the marketplace
    market,          \* the Market account at the market's address
    order,           \* the Order account at each order address
    ledger,          \* the token accounts the marketplace transfers between
    call             \* the last marketplace instruction and its result

\* The accounts of the marketplace and the record of its last call.
marketplace == <<mint_decimals, market, order, ledger, call>>

vars ==
    <<now, option_context, token, last, before_mint, math, redeem_calls,
      vault_mint, mint_decimals, market, order, ledger, call>>

\* The accounts an instruction reads and writes.
Accounts == [option_context |-> option_context, token |-> token]

Uninitialized ==
    [initialized |-> FALSE,
     collateral_mint |-> "", consideration_mint |-> "",
     strike_price |-> 0, expiration |-> 0, is_put |-> FALSE,
     option_mint |-> NoAccount, redemption_mint |-> NoAccount,
     collateral_vault |-> NoAccount, consideration_vault |-> NoAccount,
     total_supply |-> 0, exercised_amount |-> 0]


(* ------------------------------ results -------------------------------- *)

\* Result<()> of a handler or of a token-program call: the error, and the
\* accounts as written up to the point of return.
Ok(acc) == [err |-> "Ok", acc |-> acc]

Err(e, acc) == [err |-> e, acc |-> acc]

\* Result<u64> of the math helpers.
OkVal(v) == [err |-> "Ok", val |-> v]

ErrVal(e) == [err |-> e, val |-> 0]

(* --------------------------- utils/validation -------------------------- *)

validate_amount(amount) == amount > 0

\* Mutant: an expiration equal to the current time is accepted.
validate_expiration_inclusive(expiration, current_time) ==
    expiration >= current_time

validate_expiration(expiration, current_time) == expiration > current_time

validate_strike_price(strike_price) == strike_price > 0

validate_not_expired(expiration, current_time) == current_time < expiration

\* Mutant: the gate opens one tick late.
validate_expired_strict(expiration, current_time) == current_time > expiration

validate_expired(expiration, current_time) == current_time >= expiration

\* Mutant: the vault balance is not looked at.
validate_vault_balance_unchecked(vault_balance, required) == TRUE

validate_vault_balance(vault_balance, required) == vault_balance >= required

(* ------------------------------ utils/math ----------------------------- *)

RECURSIVE Pow10(_)
Pow10(d) == IF d = 0 THEN 1 ELSE 10 * Pow10(d - 1)

\* A u128 value narrowed by `as u64`.
AsU64(x) == x % (U64_MAX + 1)

U128_MAX == (U64_MAX + 1) * (U64_MAX + 1) - 1

\* Mutant: the empty-vault shortcut is taken before total_supply is checked.
calculate_pro_rata_share_vault_first(vault_balance, user_amount, total_supply) ==
    IF vault_balance = 0 THEN OkVal(0)
    ELSE IF ~(total_supply > 0) THEN ErrVal("NoTokensIssued")
    ELSE IF vault_balance * user_amount > U64_MAX THEN ErrVal("MathOverflow")
    ELSE OkVal((vault_balance * user_amount) \div total_supply)

\* Mutant: the range check is made on the quotient, not on the product.
calculate_pro_rata_share_checks_quotient(vault_balance, user_amount, total_supply) ==
    IF ~(total_supply > 0) THEN ErrVal("NoTokensIssued")
    ELSE IF vault_balance = 0 THEN OkVal(0)
    ELSE IF (vault_balance * user_amount) \div total_supply > U64_MAX
    THEN ErrVal("MathOverflow")
    ELSE OkVal((vault_balance * user_amount) \div total_supply)

calculate_pro_rata_share(vault_balance, user_amount, total_supply) ==
    IF ~(total_supply > 0) THEN ErrVal("NoTokensIssued")
    ELSE IF vault_balance = 0 THEN OkVal(0)
    ELSE IF vault_balance * user_amount > U64_MAX THEN ErrVal("MathOverflow")
    ELSE OkVal((vault_balance * user_amount) \div total_supply)

\* Mutant: the widened variant takes the empty-vault shortcut first.
calculate_pro_rata_share_u128_vault_first(vault_balance, user_amount, total_supply) ==
    IF vault_balance = 0 THEN OkVal(0)
    ELSE IF ~(total_supply > 0) THEN ErrVal("NoTokensIssued")
    ELSE IF vault_balance * user_amount > U128_MAX THEN ErrVal("MathOverflow")
    ELSE OkVal(AsU64((vault_balance * user_amount) \div total_supply))

\* Mutant: the widened variant multiplies in 64 bits after all.
calculate_pro_rata_share_u128_narrow_product(vault_balance, user_amount, total_supply) ==
    IF ~(total_supply > 0) THEN ErrVal("NoTokensIssued")
    ELSE IF vault_balance = 0 THEN OkVal(0)
    ELSE IF vault_balance * user_amount > U64_MAX THEN ErrVal("MathOverflow")
    ELSE OkVal(AsU64((vault_balance * user_amount) \div total_supply))

calculate_pro_rata_share_u128(vault_balance, user_amount, total_supply) ==
    IF ~(total_supply > 0) THEN ErrVal("NoTokensIssued")
    ELSE IF vault_balance = 0 THEN OkVal(0)
    ELSE IF vault_balance * user_amount > U128_MAX THEN ErrVal("MathOverflow")
    ELSE OkVal(AsU64((vault_balance * user_amount) \div total_supply))

\* 10_u64.pow(d): past u64 the build either traps or wraps.
pow10_u64(d, build) ==
    IF Pow10(d) <= U64_MAX THEN OkVal(Pow10(d))
    ELSE IF build = "trap" THEN ErrVal("ProgramPanicked")
    ELSE OkVal(AsU64(Pow10(d)))

calculate_strike_payment(amount, strike_price, collateral_decimals, build) ==
    IF amount * strike_price > U64_MAX THEN ErrVal("MathOverflow")
    ELSE LET p == pow10_u64(collateral_decimals, build) IN
         IF p.err # "Ok" THEN p
         ELSE IF p.val = 0 THEN ErrVal("MathOverflow")
         ELSE OkVal((amount * strike_price) \div p.val)

(* ----------------------- token program (SPL Token) --------------------- *)

RECURSIVE SumOver(_, _)
SumOver(tok, S) ==
    IF S = {} THEN 0
    ELSE LET a == CHOOSE x \in S : TRUE IN tok[a] + SumOver(tok, S \ {a})

\* Mint::supply of the mint that `account` belongs to.
Supply(tok, account) ==
    SumOver(tok, {a \in TokenAccounts :
                    a.kind = account.kind /\ a.series = account.series})

transfer_checked(acc, from, to, amount) ==
    IF acc.token[from] < amount THEN Err("InsufficientFunds", acc)
    ELSE IF acc.token[to] + amount > U64_MAX THEN Err("Overflow", acc)
    ELSE Ok([acc EXCEPT !.token[from] = @ - amount, !.token[to] = @ + amount])

burn(acc, from, amount) ==
    IF acc.token[from] < amount THEN Err("InsufficientFunds", acc)
    ELSE Ok([acc EXCEPT !.token[from] = @ - amount])

mint_to(acc, to, amount) ==
    IF Supply(acc.token, to) + amount > U64_MAX THEN Err("Overflow", acc)
    ELSE Ok([acc EXCEPT !.token[to] = @ + amount])

(* ----------------------------- instructions --------------------------- *)

create_series_handler(acc, k, current_time) ==
    IF ~validate_expiration(k.expiration, current_time)
    THEN Err("ExpirationInPast", acc)
    ELSE IF ~validate_strike_price(k.strike_price)
    THEN Err("InvalidStrikePrice", acc)
    ELSE Ok([acc EXCEPT !.option_context[k] =
                [initialized |-> TRUE,
                 collateral_mint |-> k.collateral_mint,
                 consideration_mint |-> k.consideration_mint,
                 strike_price |-> k.strike_price,
                 expiration |-> k.expiration,
                 is_put |-> k.is_put,
                 option_mint |-> OptionMint(k),
                 redemption_mint |-> RedemptionMint(k),
                 collateral_vault |-> CollateralVault(k),
                 consideration_vault |-> ConsiderationVault(k),
                 total_supply |-> 0,
                 exercised_amount |-> 0]])

\* Mutant: the total_supply update wraps instead of failing.
mint_options_handler_wraps(acc, k, user, amount) ==
    IF ~validate_amount(amount) THEN Err("InvalidAmount", acc) ELSE
    LET t1 == transfer_checked(acc, UserCollateralAccount(user),
                               acc.option_context[k].collateral_vault, amount) IN
    IF t1.err # "Ok" THEN t1 ELSE
    LET t2 == mint_to(t1.acc, UserOptionAccount(k, user), amount) IN
    IF t2.err # "Ok" THEN t2 ELSE
    LET t3 == mint_to(t2.acc, UserRedemptionAccount(k, user), amount) IN
    IF t3.err # "Ok" THEN t3 ELSE
    Ok([t3.acc EXCEPT !.option_context[k].total_supply = AsU64(@ + amount)])

\* Mutant: the redemption (short) leg is minted twice over.
mint_options_handler_double_short(acc, k, user, amount) ==
    IF ~validate_amount(amount) THEN Err("InvalidAmount", acc) ELSE
    LET t1 == transfer_checked(acc, UserCollateralAccount(user),
                               acc.option_context[k].collateral_vault, amount) IN
    IF t1.err # "Ok" THEN t1 ELSE
    LET t2 == mint_to(t1.acc, UserOptionAccount(k, user), amount) IN
    IF t2.err # "Ok" THEN t2 ELSE
    LET t3 == mint_to(t2.acc, UserRedemptionAccount(k, user), amount + 1) IN
    IF t3.err # "Ok" THEN t3 ELSE
    IF t3.acc.option_context[k].total_supply + amount > U64_MAX
    THEN Err("MathOverflow", t3.acc)
    ELSE Ok([t3.acc EXCEPT !.option_context[k].total_supply = @ + amount])

mint_options_handler(acc, k, user, amount) ==
    IF ~validate_amount(amount) THEN Err("InvalidAmount", acc) ELSE
    LET t1 == transfer_checked(acc, UserCollateralAccount(user),
                               acc.option_context[k].collateral_vault, amount) IN
    IF t1.err # "Ok" THEN t1 ELSE
    LET t2 == mint_to(t1.acc, UserOptionAccount(k, user), amount) IN
    IF t2.err # "Ok" THEN t2 ELSE
    LET t3 == mint_to(t2.acc, UserRedemptionAccount(k, user), amount) IN
    IF t3.err # "Ok" THEN t3 ELSE
    IF t3.acc.option_context[k].total_supply + amount > U64_MAX
    THEN Err("MathOverflow", t3.acc)
    ELSE Ok([t3.acc EXCEPT !.option_context[k].total_supply = @ + amount])

\* Mutant: an exercise also takes the exercised amount off total_supply.
exercise_handler_shrinks_supply(acc, k, user, amount, build) ==
    LET oc == acc.option_context[k] IN
    IF ~validate_amount(amount) THEN Err("InvalidAmount", acc) ELSE
    IF ~validate_vault_balance(acc.token[oc.collateral_vault], amount)
    THEN Err("InsufficientCollateral", acc) ELSE
    LET strike_payment == calculate_strike_payment(
                              amount, oc.strike_price, CollateralDecimals, build) IN
    IF strike_payment.err # "Ok" THEN Err(strike_payment.err, acc) ELSE
    LET t1 == burn(acc, UserOptionAccount(k, user), amount) IN
    IF t1.err # "Ok" THEN t1 ELSE
    LET t2 == transfer_checked(t1.acc, UserConsiderationAccount(user),
                               oc.consideration_vault, strike_payment.val) IN
    IF t2.err # "Ok" THEN t2 ELSE
    LET t3 == transfer_checked(t2.acc, oc.collateral_vault,
                               UserCollateralAccount(user), amount) IN
    IF t3.err # "Ok" THEN t3 ELSE
    IF t3.acc.option_context[k].exercised_amount + amount > U64_MAX
    THEN Err("MathOverflow", t3.acc)
    ELSE Ok([t3.acc EXCEPT !.option_context[k].exercised_amount = @ + amount,
                           !.option_context[k].total_supply = @ - amount])

\* Mutant: the strike payment is computed but never collected.
exercise_handler_unpaid(acc, k, user, amount, build) ==
    LET oc == acc.option_context[k] IN
    IF ~validate_amount(amount) THEN Err("InvalidAmount", acc) ELSE
    IF ~validate_vault_balance(acc.token[oc.collateral_vault], amount)
    THEN Err("InsufficientCollateral", acc) ELSE
    LET strike_payment == calculate_strike_payment(
                              amount, oc.strike_price, CollateralDecimals, build) IN
    IF strike_payment.err # "Ok" THEN Err(strike_payment.err, acc) ELSE
    LET t1 == burn(acc, UserOptionAccount(k, user), amount) IN
    IF t1.err # "Ok" THEN t1 ELSE
    LET t3 == transfer_checked(t1.acc, oc.collateral_vault,
                               UserCollateralAccount(user), amount) IN
    IF t3.err # "Ok" THEN t3 ELSE
    IF t3.acc.option_context[k].exercised_amount + amount > U64_MAX
    THEN Err("MathOverflow", t3.acc)
    ELSE Ok([t3.acc EXCEPT !.option_context[k].exercised_amount = @ + amount])

\* Mutant: the exercise is not recorded in exercised_amount.
exercise_handler_uncounted(acc, k, user, amount, build) ==
    LET oc == acc.option_context[k] IN
    IF ~validate_amount(amount) THEN Err("InvalidAmount", acc) ELSE
    IF ~validate_vault_balance(acc.token[oc.collateral_vault], amount)
    THEN Err("InsufficientCollateral", acc) ELSE
    LET strike_payment == calculate_strike_payment(
                              amount, oc.strike_price, CollateralDecimals, build) IN
    IF strike_payment.err # "Ok" THEN Err(strike_payment.err, acc) ELSE
    LET t1 == burn(acc, UserOptionAccount(k, user), amount) IN
    IF t1.err # "Ok" THEN t1 ELSE
    LET t2 == transfer_checked(t1.acc, UserConsiderationAccount(user),
                               oc.consideration_vault, strike_payment.val) IN
    IF t2.err # "Ok" THEN t2 ELSE
    transfer_checked(t2.acc, oc.collateral_vault,
                     UserCollateralAccount(user), amount)

exercise_handler(acc, k, user, amount, build) ==
    LET oc == acc.option_context[k] IN
    IF ~validate_amount(amount) THEN Err("InvalidAmount", acc) ELSE
    IF ~validate_vault_balance(acc.token[oc.collateral_vault], amount)
    THEN Err("InsufficientCollateral", acc) ELSE
    LET strike_payment == calculate_strike_payment(
                              amount, oc.strike_price, CollateralDecimals, build) IN
    IF strike_payment.err # "Ok" THEN Err(strike_payment.err, acc) ELSE
    LET t1 == burn(acc, UserOptionAccount(k, user), amount) IN
    IF t1.err # "Ok" THEN t1 ELSE
    LET t2 == transfer_checked(t1.acc, UserConsiderationAccount(user),
                               oc.consideration_vault, strike_payment.val) IN
    IF t2.err # "Ok" THEN t2 ELSE
    LET t3 == transfer_checked(t2.acc, oc.collateral_vault,
                               UserCollateralAccount(user), amount) IN
    IF t3.err # "Ok" THEN t3 ELSE
    IF t3.acc.option_context[k].exercised_amount + amount > U64_MAX
    THEN Err("MathOverflow", t3.acc)
    ELSE Ok([t3.acc EXCEPT !.option_context[k].exercised_amount = @ + amount])

\* Mutant: the paired burn forgets to decrease total_supply.
burn_paired_handler_keeps_supply(acc, k, user, amount) ==
    LET oc == acc.option_context[k] IN
    IF ~validate_amount(amount) THEN Err("InvalidAmount", acc) ELSE
    IF ~validate_vault_balance(acc.token[oc.collateral_vault], amount)
    THEN Err("InsufficientCollateral", acc) ELSE
    LET t1 == burn(acc, UserOptionAccount(k, user), amount) IN
    IF t1.err # "Ok" THEN t1 ELSE
    LET t2 == burn(t1.acc, UserRedemptionAccount(k, user), amount) IN
    IF t2.err # "Ok" THEN t2 ELSE
    transfer_checked(t2.acc, oc.collateral_vault,
                     UserCollateralAccount(user), amount)

\* Mutant: the paired burn leaves the short leg with the caller.
burn_paired_handler_keeps_short(acc, k, user, amount) ==
    LET oc == acc.option_context[k] IN
    IF ~validate_amount(amount) THEN Err("InvalidAmount", acc) ELSE
    IF ~validate_vault_balance(acc.token[oc.collateral_vault], amount)
    THEN Err("InsufficientCollateral", acc) ELSE
    LET t1 == burn(acc, UserOptionAccount(k, user), amount) IN
    IF t1.err # "Ok" THEN t1 ELSE
    LET t3 == transfer_checked(t1.acc, oc.collateral_vault,
                               UserCollateralAccount(user), amount) IN
    IF t3.err # "Ok" THEN t3 ELSE
    IF t3.acc.option_context[k].total_supply - amount < 0
    THEN Err("MathOverflow", t3.acc)
    ELSE Ok([t3.acc EXCEPT !.option_context[k].total_supply = @ - amount])

burn_paired_handler(acc, k, user, amount) ==
    LET oc == acc.option_context[k] IN
    IF ~validate_amount(amount) THEN Err("InvalidAmount", acc) ELSE
    IF ~validate_vault_balance(acc.token[oc.collateral_vault], amount)
    THEN Err("InsufficientCollateral", acc) ELSE
    LET t1 == burn(acc, UserOptionAccount(k, user), amount) IN
    IF t1.err # "Ok" THEN t1 ELSE
    LET t2 == burn(t1.acc, UserRedemptionAccount(k, user), amount) IN
    IF t2.err # "Ok" THEN t2 ELSE
    LET t3 == transfer_checked(t2.acc, oc.collateral_vault,
                               UserCollateralAccount(user), amount) IN
    IF t3.err # "Ok" THEN t3 ELSE
    IF t3.acc.option_context[k].total_supply - amount < 0
    THEN Err("MathOverflow", t3.acc)
    ELSE Ok([t3.acc EXCEPT !.option_context[k].total_supply = @ - amount])

\* Mutant: the collateral payout is not capped by the floor (it pays one
\* unit of dust whenever the vault holds any).
redeem_handler_rounds_up(acc, k, user, amount, current_time) ==
    LET oc == acc.option_context[k] IN
    IF ~validate_amount(amount) THEN Err("InvalidAmount", acc) ELSE
    IF ~validate_expired(oc.expiration, current_time)
    THEN Err("OptionNotExpired", acc) ELSE
    LET collateral_balance == acc.token[oc.collateral_vault]
        consideration_balance == acc.token[oc.consideration_vault]
        collateral_payout == calculate_pro_rata_share(
                                 collateral_balance, amount, oc.total_supply)
        consideration_payout == calculate_pro_rata_share(
                                    consideration_balance, amount, oc.total_supply)
    IN
    IF collateral_payout.err # "Ok" THEN Err(collateral_payout.err, acc) ELSE
    IF consideration_payout.err # "Ok" THEN Err(consideration_payout.err, acc) ELSE
    LET t1 == burn(acc, UserRedemptionAccount(k, user), amount) IN
    IF t1.err # "Ok" THEN t1 ELSE
    LET rounded == IF (collateral_balance * amount) % oc.total_supply = 0
                   THEN collateral_payout.val
                   ELSE collateral_payout.val + 1
        t2 == IF rounded > 0
              THEN transfer_checked(t1.acc, oc.collateral_vault,
                                    UserCollateralAccount(user), rounded)
              ELSE Ok(t1.acc) IN
    IF t2.err # "Ok" THEN t2 ELSE
    IF consideration_payout.val > 0
    THEN transfer_checked(t2.acc, oc.consideration_vault,
                          UserConsiderationAccount(user),
                          consideration_payout.val)
    ELSE Ok(t2.acc)

\* Mutant: a redemption also takes the redeemed amount off total_supply.
redeem_handler_shrinks_supply(acc, k, user, amount, current_time) ==
    LET oc == acc.option_context[k] IN
    IF ~validate_amount(amount) THEN Err("InvalidAmount", acc) ELSE
    IF ~validate_expired(oc.expiration, current_time)
    THEN Err("OptionNotExpired", acc) ELSE
    LET collateral_payout == calculate_pro_rata_share(
                                 acc.token[oc.collateral_vault], amount,
                                 oc.total_supply)
        consideration_payout == calculate_pro_rata_share(
                                    acc.token[oc.consideration_vault], amount,
                                    oc.total_supply)
    IN
    IF collateral_payout.err # "Ok" THEN Err(collateral_payout.err, acc) ELSE
    IF consideration_payout.err # "Ok" THEN Err(consideration_payout.err, acc) ELSE
    LET t1 == burn(acc, UserRedemptionAccount(k, user), amount) IN
    IF t1.err # "Ok" THEN t1 ELSE
    LET t2 == IF collateral_payout.val > 0
              THEN transfer_checked(t1.acc, oc.collateral_vault,
                                    UserCollateralAccount(user),
                                    collateral_payout.val)
              ELSE Ok(t1.acc) IN
    IF t2.err # "Ok" THEN t2 ELSE
    LET t3 == IF consideration_payout.val > 0
              THEN transfer_checked(t2.acc, oc.consideration_vault,
                                    UserConsiderationAccount(user),
                                    consideration_payout.val)
              ELSE Ok(t2.acc) IN
    IF t3.err # "Ok" THEN t3 ELSE
    IF oc.total_supply - amount < 0 THEN Err("MathOverflow", t3.acc)
    ELSE Ok([t3.acc EXCEPT !.option_context[k].total_supply = @ - amount])

\* Mutant: a redemption that empties both vaults closes the series record.
redeem_handler_closes_record(acc, k, user, amount, current_time) ==
    LET oc == acc.option_context[k] IN
    IF ~validate_amount(amount) THEN Err("InvalidAmount", acc) ELSE
    IF ~validate_expired(oc.expiration, current_time)
    THEN Err("OptionNotExpired", acc) ELSE
    LET collateral_payout == calculate_pro_rata_share(
                                 acc.token[oc.collateral_vault], amount,
                                 oc.total_supply)
        consideration_payout == calculate_pro_rata_share(
                                    acc.token[oc.consideration_vault], amount,
                                    oc.total_supply)
    IN
    IF collateral_payout.err # "Ok" THEN Err(collateral_payout.err, acc) ELSE
    IF consideration_payout.err # "Ok" THEN Err(consideration_payout.err, acc) ELSE
    LET t1 == burn(acc, UserRedemptionAccount(k, user), amount) IN
    IF t1.err # "Ok" THEN t1 ELSE
    LET t2 == IF collateral_payout.val > 0
              THEN transfer_checked(t1.acc, oc.collateral_vault,
                                    UserCollateralAccount(user),
                                    collateral_payout.val)
              ELSE Ok(t1.acc) IN
    IF t2.err # "Ok" THEN t2 ELSE
    LET t3 == IF consideration_payout.val > 0
              THEN transfer_checked(t2.acc, oc.consideration_vault,
                                    UserConsiderationAccount(user),
                                    consideration_payout.val)
              ELSE Ok(t2.acc) IN
    IF t3.err # "Ok" THEN t3 ELSE
    IF t3.acc.token[oc.collateral_vault] = 0
          /\ t3.acc.token[oc.consideration_vault] = 0
    THEN Ok([t3.acc EXCEPT !.option_context[k] = Uninitialized])
    ELSE t3

\* Mutant: the shares are taken of the short tokens still outstanding, not
\* of total_supply.
redeem_handler_live_denominator(acc, k, user, amount, current_time) ==
    LET oc == acc.option_context[k] IN
    IF ~validate_amount(amount) THEN Err("InvalidAmount", acc) ELSE
    IF ~validate_expired(oc.expiration, current_time)
    THEN Err("OptionNotExpired", acc) ELSE
    LET short_supply == Supply(acc.token, oc.redemption_mint)
        collateral_payout == calculate_pro_rata_share(
                                 acc.token[oc.collateral_vault], amount,
                                 short_supply)
        consideration_payout == calculate_pro_rata_share(
                                    acc.token[oc.consideration_vault], amount,
                                    short_supply)
    IN
    IF collateral_payout.err # "Ok" THEN Err(collateral_payout.err, acc) ELSE
    IF consideration_payout.err # "Ok" THEN Err(consideration_payout.err, acc) ELSE
    LET t1 == burn(acc, UserRedemptionAccount(k, user), amount) IN
    IF t1.err # "Ok" THEN t1 ELSE
    LET t2 == IF collateral_payout.val > 0
              THEN transfer_checked(t1.acc, oc.collateral_vault,
                                    UserCollateralAccount(user),
                                    collateral_payout.val)
              ELSE Ok(t1.acc) IN
    IF t2.err # "Ok" THEN t2 ELSE
    IF consideration_payout.val > 0
    THEN transfer_checked(t2.acc, oc.consideration_vault,
                          UserConsiderationAccount(user),
                          consideration_payout.val)
    ELSE Ok(t2.acc)

redeem_handler(acc, k, user, amount, current_time) ==
    LET oc == acc.option_context[k] IN
    IF ~validate_amount(amount) THEN Err("InvalidAmount", acc) ELSE
    IF ~validate_expired(oc.expiration, current_time)
    THEN Err("OptionNotExpired", acc) ELSE
    LET collateral_balance == acc.token[oc.collateral_vault]
        consideration_balance == acc.token[oc.consideration_vault]
        collateral_payout == calculate_pro_rata_share(
                                 collateral_balance, amount, oc.total_supply)
        consideration_payout == calculate_pro_rata_share(
                                    consideration_balance, amount, oc.total_supply)
    IN
    IF collateral_payout.err # "Ok" THEN Err(collateral_payout.err, acc) ELSE
    IF consideration_payout.err # "Ok" THEN Err(consideration_payout.err, acc) ELSE
    LET t1 == burn(acc, UserRedemptionAccount(k, user), amount) IN
    IF t1.err # "Ok" THEN t1 ELSE
    LET t2 == IF collateral_payout.val > 0
              THEN transfer_checked(t1.acc, oc.collateral_vault,
                                    UserCollateralAccount(user),
                                    collateral_payout.val)
              ELSE Ok(t1.acc) IN
    IF t2.err # "Ok" THEN t2 ELSE
    IF consideration_payout.val > 0
    THEN transfer_checked(t2.acc, oc.consideration_vault,
                          UserConsiderationAccount(user),
                          consideration_payout.val)
    ELSE Ok(t2.acc)

\* The balance the handler reads as the caller's short balance.
user_short_balance(acc, k, user) == acc.token[UserConsiderationAccount(user)]

Min(a, b) == IF a < b THEN a ELSE b

\* Mutant: the claim is recorded in exercised_amount.
redeem_consideration_handler_counts(acc, k, user) ==
    LET oc == acc.option_context[k]
        short_balance == user_short_balance(acc, k, user)
        consideration_vault_balance == acc.token[oc.consideration_vault]
    IN
    IF ~(short_balance > 0) THEN Err("NoShortTokens", acc) ELSE
    IF ~(consideration_vault_balance > 0) THEN Err("NoCashAvailable", acc) ELSE
    LET user_total_share == calculate_pro_rata_share_u128(
                                consideration_vault_balance, short_balance,
                                oc.total_supply) IN
    IF user_total_share.err # "Ok" THEN Err(user_total_share.err, acc) ELSE
    LET claimable == AsU64(Min(user_total_share.val, acc.token[oc.consideration_vault])) IN
    IF ~(claimable > 0) THEN Err("NoCashAvailable", acc) ELSE
    LET t1 == transfer_checked(acc, oc.consideration_vault,
                               UserConsiderationAccount(user), claimable) IN
    IF t1.err # "Ok" THEN t1 ELSE
    Ok([t1.acc EXCEPT !.option_context[k].exercised_amount =
                          Min(@ + claimable, U64_MAX)])

redeem_consideration_handler(acc, k, user) ==
    LET oc == acc.option_context[k]
        short_balance == user_short_balance(acc, k, user)
        consideration_vault_balance == acc.token[oc.consideration_vault]
    IN
    IF ~(short_balance > 0) THEN Err("NoShortTokens", acc) ELSE
    IF ~(consideration_vault_balance > 0) THEN Err("NoCashAvailable", acc) ELSE
    LET user_total_share == calculate_pro_rata_share_u128(
                                consideration_vault_balance, short_balance,
                                oc.total_supply) IN
    IF user_total_share.err # "Ok" THEN Err(user_total_share.err, acc) ELSE
    LET claimable == AsU64(Min(user_total_share.val, acc.token[oc.consideration_vault])) IN
    IF ~(claimable > 0) THEN Err("NoCashAvailable", acc) ELSE
    transfer_checked(acc, oc.consideration_vault,
                     UserConsiderationAccount(user), claimable)

(* ------------------- account validation and entry points -------------- *)

\* Mutant: the record is allocated with init_if_needed.
OptionCreate_init_if_needed(acc, k) == TRUE

\* #[account(init, seeds = ...)]: the address must not be occupied yet.
OptionCreate(acc, k) == ~acc.option_context[k].initialized

\* Account<'info, OptionData>: the address must hold a series record.
OptionContext(acc, k) == acc.option_context[k].initialized

create_option(acc, k, current_time) ==
    IF ~OptionCreate(acc, k) THEN Err("AccountAlreadyInUse", acc)
    ELSE create_series_handler(acc, k, current_time)

mint(acc, k, user, amount) ==
    IF ~OptionContext(acc, k) THEN Err("AccountNotInitialized", acc)
    ELSE mint_options_handler(acc, k, user, amount)

exercise(acc, k, user, amount, build) ==
    IF ~OptionContext(acc, k) THEN Err("AccountNotInitialized", acc)
    ELSE exercise_handler(acc, k, user, amount, build)

redeem(acc, k, user, amount, current_time) ==
    IF ~OptionContext(acc, k) THEN Err("AccountNotInitialized", acc)
    ELSE redeem_handler(acc, k, user, amount, current_time)

burn_entry(acc, k, user, amount) ==
    IF ~OptionContext(acc, k) THEN Err("AccountNotInitialized", acc)
    ELSE burn_paired_handler(acc, k, user, amount)

redeem_consideration(acc, k, user) ==
    IF ~OptionContext(acc, k) THEN Err("AccountNotInitialized", acc)
    ELSE redeem_consideration_handler(acc, k, user)

\* An instruction that returns Err is rolled back: none of its account
\* writes, nor those of the token-program calls it made, are kept.
\* Mutant: the writes made before the failing step are kept.
Committed_partial(acc, res) == res.acc

Committed(acc, res) == IF res.err = "Ok" THEN res.acc ELSE acc

(* ============================ spl_marketplace ========================== *)

(* ------------------------------ accounts ------------------------------- *)

NoMarket ==
    [initialized |-> FALSE, base_mint |-> "", quote_mint |-> "",
     next_order_id |-> 0, total_orders_placed |-> 0, total_orders_filled |-> 0,
     total_base_volume |-> 0, total_quote_volume |-> 0]

NoOrder ==
    [initialized |-> FALSE, market |-> MarketKey("", ""), order_id |-> 0,
     owner |-> NoAddress, is_buy |-> FALSE, price |-> 0, size |-> 0,
     filled |-> 0, created_at |-> 0]

\* A token account: its mint, the authority that can debit it, its amount.
NoTokenAccount ==
    [initialized |-> FALSE, mint |-> "", authority |-> NoAddress, amount |-> 0]

InitializedTokenAccount(mint_key, authority, amount) ==
    [initialized |-> TRUE, mint |-> mint_key, authority |-> authority,
     amount |-> amount]

\* The accounts a marketplace instruction reads and writes.
Book == [market |-> market, order |-> order, ledger |-> ledger]

\* Order::remaining
remaining(o) == IF o.size >= o.filled THEN o.size - o.filled ELSE 0

(* ------------------------------ arithmetic ----------------------------- *)

\* 10_u64.pow(decimals as u32): above the width the program panics in a
\* build that traps on overflow and wraps otherwise.
market_pow10(d, build) ==
    IF Pow10(d) <= MARKET_U64_MAX THEN OkVal(Pow10(d))
    ELSE IF build = "trap" THEN ErrVal("ProgramPanicked")
    ELSE OkVal(Pow10(d) % (MARKET_U64_MAX + 1))

\* price.checked_mul(size)?.checked_div(10_u64.pow(decimals))?
checked_mul_div_pow10(price, size, decimals, build) ==
    IF price * size > MARKET_U64_MAX THEN ErrVal("MathOverflow")
    ELSE LET p == market_pow10(decimals, build) IN
         IF p.err # "Ok" THEN p
         ELSE IF p.val = 0 THEN ErrVal("MathOverflow")
         ELSE OkVal((price * size) \div p.val)

(* ------------------- token program (token_interface) ------------------- *)

\* transfer_checked of `amount` from `from` to `to`, both of the mint
\* `mint_key`, under `authority`. The runtime refuses the call when the authority is
\* neither a signer of the transaction nor an address derived from the
\* signer seeds; the token program then checks the balance, the mints
\* and the owner of the debited account.
token_interface_transfer_checked(book, from, mint_key, to, authority, signers, amount) ==
    IF authority \notin signers THEN Err("PrivilegeEscalation", book)
    ELSE IF book.ledger[from].amount < amount
    THEN Err("InsufficientFunds", book)
    ELSE IF \/ book.ledger[from].mint # book.ledger[to].mint
            \/ book.ledger[from].mint # mint_key
    THEN Err("MintMismatch", book)
    ELSE IF book.ledger[from].authority # authority
    THEN Err("OwnerMismatch", book)
    ELSE IF from = to THEN Ok(book)
    ELSE IF book.ledger[to].amount + amount > MARKET_U64_MAX
    THEN Err("Overflow", book)
    ELSE Ok([book EXCEPT !.ledger[from].amount = @ - amount,
                         !.ledger[to].amount = @ + amount])

(* ----------------------------- instructions ---------------------------- *)

create_market_handler(book, base, quote) ==
    Ok([book EXCEPT !.market[MarketKey(base, quote)] =
           [initialized |-> TRUE, base_mint |-> base, quote_mint |-> quote,
            next_order_id |-> 0, total_orders_placed |-> 0,
            total_orders_filled |-> 0, total_base_volume |-> 0,
            total_quote_volume |-> 0]])

\* The handler of place_order, entered with the order account o and its
\* escrow allocated.
place_order_handler(book, mk, o, user, price, size, is_buy, deposit_mint, user_deposit_account, decimals, current_time, build) ==
    IF ~(price > 0) THEN Err("InvalidPrice", book)
    ELSE IF ~(size > 0) THEN Err("InvalidAmount", book)
    ELSE
    LET expected_mint == IF is_buy THEN book.market[mk].quote_mint
                         ELSE book.market[mk].base_mint
    IN
    IF deposit_mint # expected_mint THEN Err("InvalidMint", book)
    ELSE
    LET escrow_amount == IF is_buy
                         THEN checked_mul_div_pow10(price, size, decimals, build)
                         ELSE OkVal(size)
    IN
    IF escrow_amount.err # "Ok" THEN Err(escrow_amount.err, book)
    ELSE
    LET t == token_interface_transfer_checked(
                 book, user_deposit_account, deposit_mint, EscrowKey(o),
                 UserKey(user), {UserKey(user)}, escrow_amount.val)
    IN
    IF t.err # "Ok" THEN t
    ELSE
    LET placed == [t.acc EXCEPT !.order[o] =
                      [initialized |-> TRUE, market |-> mk,
                       order_id |-> book.market[mk].next_order_id,
                       owner |-> UserKey(user), is_buy |-> is_buy,
                       price |-> price, size |-> size, filled |-> 0,
                       created_at |-> current_time]]
    IN
    IF placed.market[mk].next_order_id + 1 > MARKET_U64_MAX
    THEN Err("MathOverflow", placed)
    ELSE IF placed.market[mk].total_orders_placed + 1 > MARKET_U64_MAX
    THEN Err("MathOverflow", placed)
    ELSE Ok([placed EXCEPT !.market[mk].next_order_id = @ + 1,
                           !.market[mk].total_orders_placed = @ + 1])

fill_order_handler(book, mk, o, taker, fill_size, base_mint, quote_mint, taker_base_account, taker_quote_account, maker_receive_account, decimals, build) ==
    LET maker_order == book.order[o] IN
    IF ~(fill_size > 0) THEN Err("InvalidAmount", book)
    ELSE IF ~(fill_size <= remaining(maker_order))
    THEN Err("InvalidFillSize", book)
    ELSE
    LET base_decimals == decimals[base_mint]
        quote_amount == checked_mul_div_pow10(maker_order.price, fill_size,
                                              base_decimals, build)
        \* the address derived from [b"order", market, order_id, bump]
        signers == {UserKey(taker), OrderKey(maker_order.order_id)}
    IN
    IF quote_amount.err # "Ok" THEN Err(quote_amount.err, book)
    ELSE
    LET t1 == IF maker_order.is_buy
              THEN token_interface_transfer_checked(
                       book, taker_base_account, base_mint,
                       maker_receive_account, UserKey(taker), signers,
                       fill_size)
              ELSE token_interface_transfer_checked(
                       book, EscrowKey(o), base_mint, taker_base_account, o,
                       signers, fill_size)
    IN
    IF t1.err # "Ok" THEN t1
    ELSE
    LET t2 == IF maker_order.is_buy
              THEN token_interface_transfer_checked(
                       t1.acc, EscrowKey(o), quote_mint, taker_quote_account,
                       o, signers, quote_amount.val)
              ELSE token_interface_transfer_checked(
                       t1.acc, taker_quote_account, quote_mint,
                       maker_receive_account, UserKey(taker), signers,
                       quote_amount.val)
    IN
    IF t2.err # "Ok" THEN t2
    ELSE IF maker_order.filled + fill_size > MARKET_U64_MAX
    THEN Err("MathOverflow", t2.acc)
    ELSE Ok([t2.acc EXCEPT !.order[o].filled = @ + fill_size])

\* The handler of cancel_order; `close = user` closes the order account
\* when the handler returns Ok.
cancel_order_handler(book, o, user, return_mint, user_return_account) ==
    IF ~(remaining(book.order[o]) > 0) THEN Err("OrderFullyFilled", book)
    ELSE
    LET \* the address derived from [b"escrow", order, bump]
        signers == {UserKey(user), EscrowKey(o)}
        t == token_interface_transfer_checked(
                 book, EscrowKey(o), return_mint, user_return_account, o,
                 signers, book.ledger[EscrowKey(o)].amount)
    IN
    IF t.err # "Ok" THEN t
    ELSE Ok([t.acc EXCEPT !.order[o] = NoOrder])

(* ------------------- account validation and entry points --------------- *)

create_market(book, base, quote) ==
    IF book.market[MarketKey(base, quote)].initialized
    THEN Err("AccountAlreadyInUse", book)
    ELSE create_market_handler(book, base, quote)

\* PlaceOrder: the order at [b"order", market, next_order_id] and its
\* escrow (token::mint = deposit_mint, token::authority = order) are
\* allocated before the handler is entered.
place_order(book, mk, user, price, size, is_buy, deposit_mint, user_deposit_account, decimals, current_time, build) ==
    LET o == OrderKey(book.market[mk].next_order_id) IN
    IF ~book.market[mk].initialized THEN Err("AccountNotInitialized", book)
    ELSE IF book.order[o].initialized \/ book.ledger[EscrowKey(o)].initialized
    THEN Err("AccountAlreadyInUse", book)
    ELSE place_order_handler(
             [book EXCEPT !.ledger[EscrowKey(o)] =
                              InitializedTokenAccount(deposit_mint, o, 0)],
             mk, o, user, price, size, is_buy, deposit_mint,
             user_deposit_account, decimals, current_time, build)

\* FillOrder: `constraint = maker_order.market == market.key()`; the base
\* mint, the quote mint and the three token accounts are not constrained.
fill_order(book, mk, o, taker, fill_size, base_mint, quote_mint, taker_base_account, taker_quote_account, maker_receive_account, decimals, build) ==
    IF ~book.market[mk].initialized \/ ~book.order[o].initialized
    THEN Err("AccountNotInitialized", book)
    ELSE IF book.order[o].market # mk THEN Err("InvalidMarket", book)
    ELSE fill_order_handler(book, mk, o, taker, fill_size, base_mint,
                            quote_mint, taker_base_account,
                            taker_quote_account, maker_receive_account,
                            decimals, build)

\* CancelOrder: `constraint = order.owner == user.key()`.
cancel_order(book, o, user, return_mint, user_return_account) ==
    IF ~book.order[o].initialized THEN Err("AccountNotInitialized", book)
    ELSE IF book.order[o].owner # UserKey(user)
    THEN Err("UnauthorizedAccess", book)
    ELSE cancel_order_handler(book, o, user, return_mint, user_return_account)

(* ------------------------------- actions ------------------------------- *)

\* The mints of vaults that have not been allocated.
NoMints == [collateral |-> "", consideration |-> ""]

NoSnapshot ==
    [valid |-> FALSE,
     acc |-> [option_context |-> [k \in RegistryKeys |-> Uninitialized],
              token |-> [a \in TokenAccounts |-> 0]]]

\* The accounts and the result of an instruction that returns res.
Processed(op, res) ==
    /\ option_context' = Committed(Accounts, res).option_context
    /\ token' = Committed(Accounts, res).token
    /\ last' = [op |-> op, err |-> res.err]
    /\ before_mint' = IF op = "mint" /\ res.err = "Ok"
                      THEN [valid |-> TRUE, acc |-> Accounts]
                      ELSE NoSnapshot
    /\ UNCHANGED <<now, math, marketplace>>

Instruction(op, res) ==
    /\ Processed(op, res)
    /\ UNCHANGED <<redeem_calls, vault_mint>>

\* `token::mint = collateral_mint` and `token::mint = consideration_mint`:
\* the vaults are allocated for the mint accounts cm and km supplied with
\* the call, when the call succeeds.
Allocated(k, cm, km, res) ==
    IF res.err = "Ok"
    THEN [vault_mint EXCEPT ![k] = [collateral |-> cm, consideration |-> km]]
    ELSE vault_mint

\* create_option called with the mint accounts cm and km.
CreateSeriesWith(u, k, cm, km) ==
    LET res == create_option(Accounts, k, now) IN
    /\ Processed("create_option", res)
    /\ vault_mint' = Allocated(k, cm, km, res)
    /\ UNCHANGED redeem_calls

\* create_option called by a client that supplies the mint accounts its
\* arguments name.
CreateSeries(u, k) ==
    CreateSeriesWith(u, k, k.collateral_mint, k.consideration_mint)

Mint(u, k, amount) ==
    Instruction("mint", mint(Accounts, k, u, amount))

\* Mutant: the exercise is closed by validate_not_expired at expiration.
Exercise_not_expired(u, k, amount, build) ==
    Instruction("exercise",
                IF /\ option_context[k].initialized
                   /\ ~validate_not_expired(option_context[k].expiration, now)
                THEN Err("OptionExpired", Accounts)
                ELSE exercise(Accounts, k, u, amount, build))

Exercise(u, k, amount, build) ==
    Instruction("exercise", exercise(Accounts, k, u, amount, build))

BurnPaired(u, k, amount) ==
    Instruction("burn", burn_entry(Accounts, k, u, amount))

Redeem(u, k, amount) ==
    Instruction("redeem", redeem(Accounts, k, u, amount, now))

RedeemConsideration(u, k) ==
    Instruction("redeem_consideration", redeem_consideration(Accounts, k, u))

\* The cluster clock advances; it never goes back.
Tick ==
    /\ now < MaxTime
    /\ now' = now + 1
    /\ last' = [op |-> "tick", err |-> "Ok"]
    /\ before_mint' = NoSnapshot
    /\ UNCHANGED <<option_context, token, math, redeem_calls, vault_mint,
                   marketplace>>

\* The record of a marketplace call: the instruction, its result, the
\* signer, the order it is about and the fill size.
Called(op, err, user, o, fill_size) ==
    [op |-> op, err |-> err, user |-> user, order |-> o,
     fill_size |-> fill_size,
     base_mint |-> "", quote_mint |-> "", maker_receive_account |-> NoAddress]

\* The record of a fill_order call: of one that succeeded, the mints and
\* the receiving account it was called with as well.
CalledFill(err, taker, o, fill_size, base_mint, quote_mint, maker_receive_account) ==
    IF err # "Ok" THEN Called("fill_order", err, taker, o, fill_size)
    ELSE [Called("fill_order", err, taker, o, fill_size) EXCEPT
             !.base_mint = base_mint, !.quote_mint = quote_mint,
             !.maker_receive_account = maker_receive_account]

\* The marketplace after deployment: no market, no order, the users
\* funded with base and quote tokens of the given decimals.
MarketplaceDeployed(decimals) ==
    /\ mint_decimals = decimals
    /\ market = [mk \in {TheMarket} |-> NoMarket]
    /\ order = [o \in OrderKeys |-> NoOrder]
    /\ ledger = [a \in LedgerAccounts |->
                   IF a \in UserTokenAccounts
                   THEN InitializedTokenAccount(
                            a.kind, UserKey(a.name),
                            IF a.kind = BaseMint THEN InitBase ELSE InitQuote)
                   ELSE NoTokenAccount]
    /\ call = Called("init", "Ok", "", NoAddress, 0)

\* The program's accounts after deployment: no series, the users funded.
Deployed ==
    /\ now = 0
    /\ option_context = [k \in RegistryKeys |-> Uninitialized]
    /\ token = [a \in TokenAccounts |->
                  IF a = UserCollateralAccount("alice") THEN InitCollateral
                  ELSE IF a = UserCollateralAccount("bob")
                  THEN U64_MAX - InitCollateral
                  ELSE IF a = UserConsiderationAccount("alice")
                  THEN InitConsideration
                  ELSE 0]
    /\ last = [op |-> "init", err |-> "Ok"]
    /\ before_mint = NoSnapshot
    /\ redeem_calls = 0
    /\ vault_mint = [k \in RegistryKeys |-> NoMints]

\* The arguments of a utils/math call that has not been made yet.
MathInput(x, y, z) ==
    [fn |-> "input", args |-> <<x, y, z>>, build |-> "", result |-> ErrVal("")]

Init ==
    /\ Deployed
    /\ math = MathInput(0, 0, 0)
    /\ MarketplaceDeployed([m \in MarketMints |-> 0])

Next ==
    \/ \E u \in Users, k \in CreateKeys : CreateSeries(u, k)
    \/ \E u \in Users, k \in Keys, amount \in Amounts : Mint(u, k, amount)
    \/ \E u \in Users, k \in Keys, amount \in Amounts, build \in Builds :
          Exercise(u, k, amount, build)
    \/ \E u \in Users, k \in Keys, amount \in Amounts : BurnPaired(u, k, amount)
    \/ \E u \in Users, k \in Keys, amount \in Amounts : Redeem(u, k, amount)
    \/ \E u \in Users, k \in Keys : RedeemConsideration(u, k)
    \/ Tick

Spec == Init /\ [][Next]_vars

(* ------------------- the program with a second series ------------------ *)

\* The callers can create the put as well; they go on operating the call.
CreatePut(u) == CreateSeries(u, PutKey)

RegistryNext ==
    \/ Next
    \/ \E u \in Users : CreatePut(u)

RegistrySpec == Init /\ [][RegistryNext]_vars

(* --------------- the program called with supplied accounts ------------- *)

\* The identifiers a caller supplies with an instruction on a series.
SuppliedIdentifiers(cm, km, om, rm, cv, kv) ==
    [collateral_mint |-> cm, consideration_mint |-> km,
     option_mint |-> om, redemption_mint |-> rm,
     collateral_vault |-> cv, consideration_vault |-> kv]

\* The identifiers stored in a series record.
StoredIdentifiers(record) ==
    SuppliedIdentifiers(record.collateral_mint, record.consideration_mint,
                        record.option_mint, record.redemption_mint,
                        record.collateral_vault, record.consideration_vault)

\* What a caller can supply for series k: for each identifier the right
\* account or another account of the same type (the other asset, the
\* other token type of the series, the other vault).
SuppliedAccounts(k) ==
    {ctx \in [collateral_mint : {CollateralMint, ConsiderationMint},
              consideration_mint : {ConsiderationMint, CollateralMint},
              option_mint : {OptionMint(k), RedemptionMint(k)},
              redemption_mint : {RedemptionMint(k), OptionMint(k)},
              collateral_vault : {CollateralVault(k), ConsiderationVault(k)},
              consideration_vault : {ConsiderationVault(k), CollateralVault(k)}] :
        \* none, one or all of the identifiers wrong
        LET right == SuppliedIdentifiers(CollateralMint, ConsiderationMint,
                                         OptionMint(k), RedemptionMint(k),
                                         CollateralVault(k), ConsiderationVault(k))
            wrong == {f \in DOMAIN ctx : ctx[f] # right[f]}
        IN Cardinality(wrong) \in {0, 1, 6}}

\* Mutant: the collateral vault is not compared with the stored one.
OptionContextConstraints_any_vault(record, ctx) ==
    /\ ctx.collateral_mint = record.collateral_mint
    /\ ctx.consideration_mint = record.consideration_mint
    /\ ctx.option_mint = record.option_mint
    /\ ctx.redemption_mint = record.redemption_mint
    /\ ctx.consideration_vault = record.consideration_vault

\* The `constraint = ... == option_context....` of the accounts struct.
OptionContextConstraints(record, ctx) ==
    /\ ctx.collateral_mint = record.collateral_mint
    /\ ctx.consideration_mint = record.consideration_mint
    /\ ctx.option_mint = record.option_mint
    /\ ctx.redemption_mint = record.redemption_mint
    /\ ctx.collateral_vault = record.collateral_vault
    /\ ctx.consideration_vault = record.consideration_vault

\* The accounts are validated before the handler is entered; the handler
\* is entered only with the identifiers stored in the record, and res is
\* what it returns then.
try_accounts(acc, k, ctx, res) ==
    IF /\ OptionContext(acc, k)
       /\ ~OptionContextConstraints(acc.option_context[k], ctx)
    THEN Err("ConstraintRaw", acc)
    ELSE res

MintWith(u, k, amount, ctx) ==
    Instruction("mint",
                try_accounts(Accounts, k, ctx, mint(Accounts, k, u, amount)))

ExerciseWith(u, k, amount, build, ctx) ==
    Instruction("exercise",
                try_accounts(Accounts, k, ctx,
                             exercise(Accounts, k, u, amount, build)))

BurnPairedWith(u, k, amount, ctx) ==
    Instruction("burn",
                try_accounts(Accounts, k, ctx,
                             burn_entry(Accounts, k, u, amount)))

RedeemWith(u, k, amount, ctx) ==
    Instruction("redeem",
                try_accounts(Accounts, k, ctx,
                             redeem(Accounts, k, u, amount, now)))

RedeemConsiderationWith(u, k, ctx) ==
    Instruction("redeem_consideration",
                try_accounts(Accounts, k, ctx,
                             redeem_consideration(Accounts, k, u)))

AccountsNext ==
    \/ \E u \in Users, k \in CreateKeys : CreateSeries(u, k)
    \/ \E u \in Users, k \in Keys, amount \in Amounts :
          \E ctx \in SuppliedAccounts(k) : MintWith(u, k, amount, ctx)
    \/ \E u \in Users, k \in Keys, amount \in Amounts, build \in Builds :
          \E ctx \in SuppliedAccounts(k) : ExerciseWith(u, k, amount, build, ctx)
    \/ \E u \in Users, k \in Keys, amount \in Amounts :
          \E ctx \in SuppliedAccounts(k) : BurnPairedWith(u, k, amount, ctx)
    \/ \E u \in Users, k \in Keys, amount \in Amounts :
          \E ctx \in SuppliedAccounts(k) : RedeemWith(u, k, amount, ctx)
    \/ \E u \in Users, k \in Keys :
          \E ctx \in SuppliedAccounts(k) : RedeemConsiderationWith(u, k, ctx)
    \/ Tick

AccountsSpec == Init /\ [][AccountsNext]_vars

(* ------------- the program with its redeem calls counted --------------- *)

\* An instruction, and the count of the redeem calls that have succeeded
\* since a mint, exercise or burn last did.
Counted(op, res) ==
    /\ Processed(op, res)
    /\ redeem_calls' =
          IF res.err # "Ok" THEN redeem_calls
          ELSE IF op = "redeem" THEN redeem_calls + 1
          ELSE IF op \in {"mint", "exercise", "burn"} THEN 0
          ELSE redeem_calls
    /\ UNCHANGED vault_mint

CreateSeriesCounted(u, k) == CreateSeries(u, k)

MintCounted(u, k, amount) ==
    Counted("mint", mint(Accounts, k, u, amount))

ExerciseCounted(u, k, amount, build) ==
    Counted("exercise", exercise(Accounts, k, u, amount, build))

BurnPairedCounted(u, k, amount) ==
    Counted("burn", burn_entry(Accounts, k, u, amount))

RedeemCounted(u, k, amount) ==
    Counted("redeem", redeem(Accounts, k, u, amount, now))

RedeemConsiderationCounted(u, k) ==
    Counted("redeem_consideration", redeem_consideration(Accounts, k, u))

CountedNext ==
    \/ \E u \in Users, k \in CreateKeys : CreateSeriesCounted(u, k)
    \/ \E u \in Users, k \in Keys, amount \in Amounts : MintCounted(u, k, amount)
    \/ \E u \in Users, k \in Keys, amount \in Amounts, build \in Builds :
          ExerciseCounted(u, k, amount, build)
    \/ \E u \in Users, k \in Keys, amount \in Amounts :
          BurnPairedCounted(u, k, amount)
    \/ \E u \in Users, k \in Keys, amount \in Amounts : RedeemCounted(u, k, amount)
    \/ \E u \in Users, k \in Keys : RedeemConsiderationCounted(u, k)
    \/ Tick

CountedSpec == Init /\ [][CountedNext]_vars

(* ------------- the program with the mint accounts supplied ------------- *)

\* The mint accounts a caller of create_option can supply.
Mints == {CollateralMint, ConsiderationMint}

\* mint called on series k, whose vaults hold vm. The collateral mint
\* account is the one stored in the record (the constraint of
\* OptionContext); token::transfer_checked fails when the destination
\* account is not of the mint account passed.
mint_allocated(acc, k, user, amount, vm) ==
    IF ~OptionContext(acc, k) THEN Err("AccountNotInitialized", acc)
    ELSE IF ~validate_amount(amount) THEN Err("InvalidAmount", acc)
    ELSE IF vm[k].collateral # acc.option_context[k].collateral_mint
    THEN Err("MintMismatch", acc)
    ELSE mint_options_handler(acc, k, user, amount)

MintAllocated(u, k, amount) ==
    Instruction("mint", mint_allocated(Accounts, k, u, amount, vault_mint))

AllocationNext ==
    \/ \E u \in Users, k \in CreateKeys, cm \in Mints, km \in Mints :
          CreateSeriesWith(u, k, cm, km)
    \/ \E u \in Users, k \in Keys, amount \in Amounts :
          MintAllocated(u, k, amount)
    \/ Tick

AllocationSpec == Init /\ [][AllocationNext]_vars

(* ----------------------- the marketplace program ----------------------- *)

\* The accounts of the option protocol, which the marketplace leaves alone.
protocol ==
    <<now, option_context, token, last, before_mint, math, redeem_calls,
      vault_mint>>

\* A marketplace instruction that returns res: an instruction that
\* returns Err is rolled back.
MarketProcessed(rec, res) ==
    /\ market' = Committed(Book, res).market
    /\ order' = Committed(Book, res).order
    /\ ledger' = Committed(Book, res).ledger
    /\ call' = rec
    /\ UNCHANGED <<protocol, mint_decimals>>

CreateMarket(u) ==
    LET res == create_market(Book, BaseMint, QuoteMint) IN
    MarketProcessed(Called("create_market", res.err, u, NoAddress, 0), res)

\* place_order by user u, who deposits from the own account of the
\* deposit mint.
PlaceOrder(u, price, size, is_buy, deposit_mint, build) ==
    /\ market[TheMarket].next_order_id < MaxOrders
    /\ LET res == place_order(Book, TheMarket, u, price, size, is_buy,
                              deposit_mint, UserTokenAccount(deposit_mint, u),
                              mint_decimals[deposit_mint], now, build)
       IN MarketProcessed(
              Called("place_order", res.err, u,
                     OrderKey(market[TheMarket].next_order_id), 0), res)

\* fill_order by the taker, who supplies the two mints, the own accounts
\* of those mints, and the account the maker is to be paid into.
FillOrder(taker, o, fill_size, base_mint, quote_mint, maker_receive_account, build) ==
    LET res == fill_order(Book, TheMarket, o, taker, fill_size, base_mint,
                          quote_mint, UserTokenAccount(base_mint, taker),
                          UserTokenAccount(quote_mint, taker),
                          maker_receive_account, mint_decimals, build)
    IN MarketProcessed(
           CalledFill(res.err, taker, o, fill_size, base_mint, quote_mint,
                      maker_receive_account), res)

\* cancel_order by user u, who asks for the escrow to be returned to the
\* own account of the return mint.
CancelOrder(u, o, return_mint) ==
    LET res == cancel_order(Book, o, u, return_mint,
                            UserTokenAccount(return_mint, u))
    IN MarketProcessed(Called("cancel_order", res.err, u, o, 0), res)

MarketInit ==
    /\ Deployed
    /\ math = MathInput(0, 0, 0)
    /\ \E decimals \in [MarketMints -> Decimals] : MarketplaceDeployed(decimals)

MarketNext ==
    \/ \E u \in Users : CreateMarket(u)
    \/ \E u \in Users, price \in Prices, size \in Sizes, is_buy \in BOOLEAN,
          deposit_mint \in MarketMints, build \in Builds :
          PlaceOrder(u, price, size, is_buy, deposit_mint, build)
    \/ \E taker \in Users, o \in OrderKeys, fill_size \in Sizes,
          base_mint \in MarketMints, quote_mint \in MarketMints,
          maker_receive_account \in UserTokenAccounts, build \in Builds :
          FillOrder(taker, o, fill_size, base_mint, quote_mint,
                    maker_receive_account, build)
    \/ \E u \in Users, o \in OrderKeys, return_mint \in MarketMints :
          CancelOrder(u, o, return_mint)

MarketSpec == MarketInit /\ [][MarketNext]_vars

(* --------------------- the utils/math functions alone ------------------ *)

\* Every u64 value.
U64 == 0 .. U64_MAX

MathCall(fn, build, res) ==
    /\ math.fn = "input"
    /\ math' = [math EXCEPT !.fn = fn, !.build = build, !.result = res]
    /\ UNCHANGED <<now, option_context, token, last, before_mint, redeem_calls,
                   vault_mint, marketplace>>

CalculateProRataShare ==
    MathCall("calculate_pro_rata_share", "",
             calculate_pro_rata_share(math.args[1], math.args[2], math.args[3]))

CalculateProRataShareU128 ==
    MathCall("calculate_pro_rata_share_u128", "",
             calculate_pro_rata_share_u128(math.args[1], math.args[2],
                                           math.args[3]))

CalculateStrikePayment(build) ==
    MathCall("calculate_strike_payment", build,
             calculate_strike_payment(math.args[1], math.args[2], math.args[3],
                                      build))

MathInit ==
    /\ Deployed
    /\ MarketplaceDeployed([m \in MarketMints |-> 0])
    /\ \E x \in U64, y \in U64, z \in U64 : math = MathInput(x, y, z)

MathNext ==
    \/ CalculateProRataShare
    \/ CalculateProRataShareU128
    \/ \E build \in Builds : CalculateStrikePayment(build)

MathSpec == MathInit /\ [][MathNext]_vars

(* ------------------------------ properties ----------------------------- *)

Succeeded(op) == last = [op |-> op, err |-> "Ok"]

\* C1: every successful Mint of amount a > 0 adds a to total_supply, to the
\* caller's long and short balances and to the collateral vault, and takes a
\* from the caller's collateral balance.
C1_MintEffects ==
    [][\A u \in Users, k \in Keys, a \in Amounts :
          (Mint(u, k, a) /\ last'.err = "Ok") =>
              /\ a > 0
              /\ option_context'[k].total_supply
                    = option_context[k].total_supply + a
              /\ token'[UserOptionAccount(k, u)]
                    = token[UserOptionAccount(k, u)] + a
              /\ token'[UserRedemptionAccount(k, u)]
                    = token[UserRedemptionAccount(k, u)] + a
              /\ token'[CollateralVault(k)] = token[CollateralVault(k)] + a
              /\ token'[UserCollateralAccount(u)]
                    = token[UserCollateralAccount(u)] - a]_vars

\* A Mint has just succeeded on a series that already had supply.
C1_Witness ==
    /\ Succeeded("mint")
    /\ before_mint.valid
    /\ \E k \in Keys :
          /\ before_mint.acc.option_context[k].total_supply > 0
          /\ option_context[k].total_supply
                > before_mint.acc.option_context[k].total_supply

\* The accounts are those that Mint(a) by u on k has just made of before_mint.
JustMinted(u, k, a) ==
    /\ Succeeded("mint")
    /\ before_mint.valid
    /\ mint(before_mint.acc, k, u, a) = Ok(Accounts)

\* C2: a Mint(a) immediately followed by Burn-Paired(a) of the same caller
\* succeeds and restores the caller's collateral, long and short balances,
\* the collateral vault and total_supply to their values before the Mint.
C2_MintBurnRoundTrip ==
    [][\A u \in Users, k \in Keys, a \in Amounts :
          (JustMinted(u, k, a) /\ BurnPaired(u, k, a)) =>
              /\ last'.err = "Ok"
              /\ token'[UserCollateralAccount(u)]
                    = before_mint.acc.token[UserCollateralAccount(u)]
              /\ token'[UserOptionAccount(k, u)]
                    = before_mint.acc.token[UserOptionAccount(k, u)]
              /\ token'[UserRedemptionAccount(k, u)]
                    = before_mint.acc.token[UserRedemptionAccount(k, u)]
              /\ token'[CollateralVault(k)]
                    = before_mint.acc.token[CollateralVault(k)]
              /\ option_context'[k].total_supply
                    = before_mint.acc.option_context[k].total_supply]_vars

\* Burn-Paired has just succeeded and left a series with supply and
\* tokens outstanding.
C2_Witness ==
    /\ Succeeded("burn")
    /\ \E k \in Keys, u \in Users :
          /\ option_context[k].total_supply > 0
          /\ token[UserOptionAccount(k, u)] > 0

TotalSupply(k) == option_context[k].total_supply

\* The series exists and its expiration has been reached.
GatePassed(k) ==
    option_context[k].initialized /\ now >= option_context[k].expiration

\* C4 (as claimed): a Redeem fails with OptionNotExpired whenever
\* now < expiration, never fails with it when now >= expiration, and once
\* the gate has passed it stays passed.
C4_RedeemGateAsClaimed ==
    [][/\ \A u \in Users, k \in Keys, a \in Amounts :
             (Redeem(u, k, a) /\ option_context[k].initialized) =>
                 /\ now < option_context[k].expiration
                       => last'.err = "OptionNotExpired"
                 /\ now >= option_context[k].expiration
                       => last'.err # "OptionNotExpired"
       /\ \A k \in Keys : GatePassed(k) => GatePassed(k)']_vars

\* C4 (amended): a Redeem of an amount > 0 fails with OptionNotExpired
\* whenever now < expiration; a Redeem of any amount never fails with it
\* when now >= expiration (now = expiration included); and once the gate
\* has passed for a series it stays passed, the clock never going back.
C4_RedeemGate ==
    [][/\ \A u \in Users, k \in Keys, a \in Amounts :
             (Redeem(u, k, a) /\ option_context[k].initialized) =>
                 /\ (a > 0 /\ now < option_context[k].expiration)
                       => last'.err = "OptionNotExpired"
                 /\ now >= option_context[k].expiration
                       => last'.err # "OptionNotExpired"
       /\ \A k \in Keys : GatePassed(k) => GatePassed(k)']_vars

\* A Redeem has just been refused before expiry while short tokens are out.
C4_Witness ==
    /\ last = [op |-> "redeem", err |-> "OptionNotExpired"]
    /\ \E k \in Keys, u \in Users :
          /\ now < option_context[k].expiration
          /\ token[UserRedemptionAccount(k, u)] > 0

\* C5: every successful Redeem of amount a > 0 burns a of the caller's
\* short tokens and moves floor(vault * a / total_supply) out of each vault
\* to the caller, computed from the balances and total_supply on entry.
C5_RedeemEffects ==
    [][\A u \in Users, k \in Keys, a \in Amounts :
          (Redeem(u, k, a) /\ last'.err = "Ok") =>
              /\ a > 0
              /\ TotalSupply(k) > 0
              /\ LET collateral_payout ==
                         (token[CollateralVault(k)] * a) \div TotalSupply(k)
                     consideration_payout ==
                         (token[ConsiderationVault(k)] * a) \div TotalSupply(k)
                 IN
                 /\ token'[UserRedemptionAccount(k, u)]
                       = token[UserRedemptionAccount(k, u)] - a
                 /\ token'[CollateralVault(k)]
                       = token[CollateralVault(k)] - collateral_payout
                 /\ token'[UserCollateralAccount(u)]
                       = token[UserCollateralAccount(u)] + collateral_payout
                 /\ token'[ConsiderationVault(k)]
                       = token[ConsiderationVault(k)] - consideration_payout
                 /\ token'[UserConsiderationAccount(u)]
                       = token[UserConsiderationAccount(u)]
                            + consideration_payout]_vars

\* A Redeem has just succeeded and left dust: short tokens are all burned
\* while the collateral vault still holds funds.
C5_Witness ==
    /\ Succeeded("redeem")
    /\ \E k \in Keys :
          /\ Supply(token, RedemptionMint(k)) = 0
          /\ token[CollateralVault(k)] > 0

\* C6: total_supply moves only by a successful Mint (+amount) or Burn-Paired
\* (-amount); Exercise, Redeem and Redeem-Consideration leave it unchanged
\* whatever their result, and Exercise leaves the short-token supply unchanged.
C6_TotalSupplyFrame ==
    [][/\ \A u \in Users, k \in Keys, a \in Amounts :
             /\ Mint(u, k, a) =>
                   TotalSupply(k)' = TotalSupply(k)
                                       + (IF last'.err = "Ok" THEN a ELSE 0)
             /\ BurnPaired(u, k, a) =>
                   TotalSupply(k)' = TotalSupply(k)
                                       - (IF last'.err = "Ok" THEN a ELSE 0)
       /\ last'.op \notin {"mint", "burn"} =>
             \A k \in CreateKeys : TotalSupply(k)' = TotalSupply(k)
       /\ last'.op = "exercise" =>
             \A k \in Keys : Supply(token', RedemptionMint(k))
                                = Supply(token, RedemptionMint(k))]_vars

\* An Exercise has just succeeded: total_supply now exceeds the long supply.
C6_Witness ==
    /\ Succeeded("exercise")
    /\ \E k \in Keys : TotalSupply(k) > Supply(token, OptionMint(k))

\* C7 (as claimed): Redeem-Consideration fails with NoShortTokens exactly
\* when the caller's short-token balance is 0, whatever else the caller
\* owns, and a successful call pays the share of that short-token balance.
C7_ShortBalanceDecides ==
    [][\A u \in Users, k \in Keys :
          (RedeemConsideration(u, k) /\ option_context[k].initialized) =>
              LET short == token[UserRedemptionAccount(k, u)]
                  vault == token[ConsiderationVault(k)]
              IN
              /\ short = 0 => last'.err = "NoShortTokens"
              /\ short > 0 => last'.err # "NoShortTokens"
              /\ last'.err = "Ok" =>
                    /\ TotalSupply(k) > 0
                    /\ vault - token'[ConsiderationVault(k)]
                          = Min((vault * short) \div TotalSupply(k), vault)]_vars

\* C8 (as claimed): a Redeem-Consideration call of a short-holder leaves
\* total_supply unchanged and takes claimable = min(share, vault) out of
\* the consideration vault, the share being floor(vault * short balance /
\* total_supply) of the vault as it is on entry; it never takes more than
\* the vault holds, and it fails with NoCashAvailable when claimable is 0.
C8_ClampedClaim ==
    [][\A u \in Users, k \in Keys :
          (/\ RedeemConsideration(u, k)
           /\ option_context[k].initialized
           /\ token[UserRedemptionAccount(k, u)] > 0
           /\ token[ConsiderationVault(k)] > 0) =>
              LET vault == token[ConsiderationVault(k)]
                  share == (vault * token[UserRedemptionAccount(k, u)])
                              \div TotalSupply(k)
                  claimable == Min(share, vault)
              IN
              /\ TotalSupply(k) > 0
              /\ TotalSupply(k)' = TotalSupply(k)
              /\ token'[ConsiderationVault(k)] >= 0
              /\ claimable = 0 =>
                    /\ last'.err = "NoCashAvailable"
                    /\ token'[ConsiderationVault(k)] = vault
              /\ claimable > 0 =>
                    /\ last'.err = "Ok"
                    /\ token'[ConsiderationVault(k)] = vault - claimable]_vars

ExercisedAmount(k) == option_context[k].exercised_amount

\* Both counters of every series record are within the unsigned 64-bit range.
CountersInRange ==
    \A k \in CreateKeys :
        /\ TotalSupply(k) \in 0 .. U64_MAX
        /\ ExercisedAmount(k) \in 0 .. U64_MAX

\* The instruction just processed failed and changed no record and no balance.
FailedUnchanged ==
    /\ last'.err # "Ok"
    /\ option_context' = option_context
    /\ token' = token

\* C11 (as claimed): the counters stay in range, and a Mint past the top of
\* total_supply, an Exercise past the top of exercised_amount and a
\* Burn-Paired of more than total_supply each fail with MathOverflow,
\* nothing issued, burned or transferred.
C11_CountersFailWithMathOverflow ==
    [][/\ CountersInRange'
       /\ \A u \in Users, k \in Keys, a \in Amounts :
             /\ (option_context[k].initialized
                     /\ TotalSupply(k) + a > U64_MAX /\ Mint(u, k, a))
                   => (FailedUnchanged /\ last'.err = "MathOverflow")
             /\ (option_context[k].initialized
                     /\ a > TotalSupply(k) /\ BurnPaired(u, k, a))
                   => (FailedUnchanged /\ last'.err = "MathOverflow")
             /\ \A b \in Builds :
                   (option_context[k].initialized
                       /\ ExercisedAmount(k) + a > U64_MAX
                       /\ Exercise(u, k, a, b))
                     => (FailedUnchanged /\ last'.err = "MathOverflow")]_vars

\* C11: the counters stay in range, and each of the three calls fails with
\* nothing issued, burned or transferred. The Mint fails with MathOverflow
\* when the caller owns the collateral and the token ledger accepts both
\* issues, and with the ledger's error otherwise; the Exercise and the
\* Burn-Paired fail with InsufficientCollateral, the vault holding less
\* than the amount in every such state.
C11_CountersNeverWrap ==
    [][/\ CountersInRange'
       /\ \A u \in Users, k \in Keys, a \in Amounts :
             /\ (option_context[k].initialized
                     /\ TotalSupply(k) + a > U64_MAX /\ Mint(u, k, a))
                   => /\ FailedUnchanged
                      /\ last'.err \in {"MathOverflow", "InsufficientFunds",
                                        "Overflow"}
                      /\ (/\ token[UserCollateralAccount(u)] >= a
                          /\ Supply(token, OptionMint(k)) + a <= U64_MAX
                          /\ Supply(token, RedemptionMint(k)) + a <= U64_MAX)
                            => last'.err = "MathOverflow"
             /\ (option_context[k].initialized
                     /\ a > TotalSupply(k) /\ BurnPaired(u, k, a))
                   => (FailedUnchanged /\ last'.err = "InsufficientCollateral")
             /\ \A b \in Builds :
                   (option_context[k].initialized
                       /\ ExercisedAmount(k) + a > U64_MAX
                       /\ Exercise(u, k, a, b))
                     => (FailedUnchanged
                         /\ last'.err = "InsufficientCollateral")]_vars

\* A Mint has just failed with MathOverflow on a total_supply that is in
\* range and close enough to the top for the amount to pass it.
C11_Witness ==
    /\ last = [op |-> "mint", err |-> "MathOverflow"]
    /\ CountersInRange
    /\ \E k \in Keys : TotalSupply(k) + MaxAmount > U64_MAX

\* Both variants of proportional_share fail with NoTokensIssued on a zero
\* total_supply, whatever the vault balance and the user amount.
NoTokensIssuedOnZeroSupply ==
    \A vault_balance \in U64, user_amount \in U64 :
        /\ calculate_pro_rata_share(vault_balance, user_amount, 0)
              = ErrVal("NoTokensIssued")
        /\ calculate_pro_rata_share_u128(vault_balance, user_amount, 0)
              = ErrVal("NoTokensIssued")

\* C12 (as claimed): proportional_share fails with NoTokensIssued whenever
\* total_supply = 0, and so every Redeem (of a valid amount, once the gate
\* has passed) and every Redeem-Consideration on a series whose total_supply
\* is 0 fails with NoTokensIssued.
C12_ZeroSupplyFailsNoTokensIssued ==
    [][/\ NoTokensIssuedOnZeroSupply
       /\ \A u \in Users, k \in Keys :
             (option_context[k].initialized /\ TotalSupply(k) = 0) =>
                 /\ \A a \in Amounts :
                       (Redeem(u, k, a) /\ a > 0 /\ GatePassed(k))
                           => last'.err = "NoTokensIssued"
                 /\ RedeemConsideration(u, k)
                       => last'.err = "NoTokensIssued"]_vars

\* C12: proportional_share fails with NoTokensIssued whenever
\* total_supply = 0; on a series whose total_supply is 0 a Redeem of a
\* positive amount at or after expiration fails with NoTokensIssued (a zero
\* amount and the time gate are rejected first), and a Redeem-Consideration
\* fails before it computes a share, with NoShortTokens or NoCashAvailable,
\* the consideration vault of such a series being empty.
C12_ZeroSupplyFails ==
    [][/\ NoTokensIssuedOnZeroSupply
       /\ \A u \in Users, k \in Keys :
             (option_context[k].initialized /\ TotalSupply(k) = 0) =>
                 /\ \A a \in Amounts :
                       Redeem(u, k, a) =>
                           /\ FailedUnchanged
                           /\ last'.err =
                                 IF a = 0 THEN "InvalidAmount"
                                 ELSE IF now < option_context[k].expiration
                                 THEN "OptionNotExpired"
                                 ELSE "NoTokensIssued"
                 /\ RedeemConsideration(u, k) =>
                       /\ FailedUnchanged
                       /\ token[ConsiderationVault(k)] = 0
                       /\ last'.err \in {"NoShortTokens", "NoCashAvailable"}]_vars

\* A Redeem has just failed with NoTokensIssued on a series nobody holds.
C12_Witness ==
    /\ last = [op |-> "redeem", err |-> "NoTokensIssued"]
    /\ \E k \in Keys : option_context[k].initialized /\ TotalSupply(k) = 0

\* The call made is one of the two variants of proportional_share, on
\* (vault_balance, user_amount, total_supply) = math.args.
ProRataCall ==
    math.fn \in {"calculate_pro_rata_share", "calculate_pro_rata_share_u128"}

\* C13 (as claimed): proportional_share returns 0 without error whenever
\* vault_balance = 0, for any user_amount and any total_supply, 0 included.
C13_ZeroVaultAlwaysZero ==
    (ProRataCall /\ math.args[1] = 0) => math.result = OkVal(0)

\* C13: proportional_share returns 0 without error whenever vault_balance = 0
\* and total_supply > 0, for any user_amount; with total_supply = 0 it fails
\* with NoTokensIssued, empty vault or not.
C13_ZeroVaultZeroShare ==
    (ProRataCall /\ math.args[1] = 0) =>
        math.result = IF math.args[3] > 0 THEN OkVal(0)
                      ELSE ErrVal("NoTokensIssued")

\* proportional_share has returned 0 for a holder of part of a positive
\* total_supply, the vault being empty.
C13_Witness ==
    /\ ProRataCall
    /\ math.args[1] = 0 /\ math.args[2] > 0 /\ math.args[3] > math.args[2]
    /\ math.result = OkVal(0)

\* q is the floor of numerator / denominator: the largest q with
\* q * denominator <= numerator.
IsFloorOf(q, numerator, denominator) ==
    /\ q * denominator <= numerator
    /\ numerator < (q + 1) * denominator

\* C14: with total_supply > 0 and vault_balance > 0 the 64-bit
\* proportional_share returns exactly floor(vault_balance * user_amount /
\* total_supply) when the product fits in 64 bits, and fails with
\* MathOverflow when the product does not fit, even if the quotient would.
C14_ProRataShare64 ==
    (/\ math.fn = "calculate_pro_rata_share"
     /\ math.args[1] > 0
     /\ math.args[3] > 0) =>
        LET product == math.args[1] * math.args[2] IN
        IF product <= U64_MAX
        THEN /\ math.result.err = "Ok"
             /\ IsFloorOf(math.result.val, product, math.args[3])
        ELSE math.result = ErrVal("MathOverflow")

\* The 64-bit proportional_share has failed with MathOverflow on a product
\* out of range whose quotient is in range.
C14_Witness ==
    /\ math.fn = "calculate_pro_rata_share"
    /\ math.args[1] > 0 /\ math.args[3] > 0
    /\ math.args[1] * math.args[2] > U64_MAX
    /\ (math.args[1] * math.args[2]) \div math.args[3] <= U64_MAX
    /\ math.result = ErrVal("MathOverflow")

\* C15: the 128-bit-widened proportional_share returns exactly
\* floor(vault_balance * user_amount / total_supply) for every input with
\* total_supply > 0 whose exact quotient fits in 64 bits: the narrowing
\* loses nothing there.
C15_ProRataShareWidened ==
    (/\ math.fn = "calculate_pro_rata_share_u128"
     /\ math.args[3] > 0
     /\ (math.args[1] * math.args[2]) \div math.args[3] <= U64_MAX) =>
        /\ math.result.err = "Ok"
        /\ IsFloorOf(math.result.val, math.args[1] * math.args[2], math.args[3])

\* The widened proportional_share has returned a rounded-down quotient of a
\* product that does not fit in 64 bits.
C15_Witness ==
    /\ math.fn = "calculate_pro_rata_share_u128"
    /\ math.args[3] > 0
    /\ math.args[1] * math.args[2] > U64_MAX
    /\ (math.args[1] * math.args[2]) % math.args[3] # 0
    /\ math.result.err = "Ok"
    /\ math.result.val = (math.args[1] * math.args[2]) \div math.args[3]

\* C16 (as claimed): when the exact quotient vault_balance * user_amount /
\* total_supply exceeds the 64-bit range, the 128-bit-widened
\* proportional_share fails with MathOverflow; it never returns the
\* quotient reduced modulo 2^64.
C16_WidenedShareFailsOutOfRange ==
    (/\ math.fn = "calculate_pro_rata_share_u128"
     /\ math.args[3] > 0
     /\ (math.args[1] * math.args[2]) \div math.args[3] > U64_MAX) =>
        math.result = ErrVal("MathOverflow")

\* C17 (as claimed): strike_payment returns exactly floor(amount *
\* strike_price / 10^collateral_decimals) when the product and the power of
\* ten both fit in 64 bits, and fails with MathOverflow, with no other
\* outcome, when either does not.
C17_StrikePayment ==
    math.fn = "calculate_strike_payment" =>
        LET product == math.args[1] * math.args[2]
            power == Pow10(math.args[3])
        IN
        IF product <= U64_MAX /\ power <= U64_MAX
        THEN /\ math.result.err = "Ok"
             /\ IsFloorOf(math.result.val, product, power)
        ELSE math.result = ErrVal("MathOverflow")

\* The tuple a series record stores.
StoredTuple(record) ==
    SeriesKey(record.collateral_mint, record.consideration_mint,
              record.strike_price, record.expiration, record.is_put)

\* The token types and vaults of a series record.
RecordAccounts(record) ==
    {record.option_mint, record.redemption_mint,
     record.collateral_vault, record.consideration_vault}

\* Every record stores the tuple of the address it lives at, so no two
\* records store the same tuple, and no two records share a token type or
\* a vault.
OneRecordPerTuple ==
    \A k \in RegistryKeys :
        option_context[k].initialized =>
            /\ StoredTuple(option_context[k]) = k
            /\ \A j \in RegistryKeys \ {k} :
                  option_context[j].initialized =>
                      /\ StoredTuple(option_context[j]) # StoredTuple(option_context[k])
                      /\ RecordAccounts(option_context[j])
                            \cap RecordAccounts(option_context[k]) = {}

\* Tuples that differ in a component are different addresses.
DistinctTuplesDistinctKeys ==
    \A cm1 \in {CollateralMint, ConsiderationMint},
       cm2 \in {CollateralMint, ConsiderationMint},
       s1 \in 0 .. StrikePrice, s2 \in 0 .. StrikePrice,
       e1 \in 0 .. Expiration, e2 \in 0 .. Expiration,
       p1 \in BOOLEAN, p2 \in BOOLEAN :
        SeriesKey(cm1, ConsiderationMint, s1, e1, p1)
              = SeriesKey(cm2, ConsiderationMint, s2, e2, p2)
            => (cm1 = cm2 /\ s1 = s2 /\ e1 = e2 /\ p1 = p2)

\* C18: a Create-Series on the tuple of an existing record fails and leaves
\* that record, its counters and every balance unchanged; a Create-Series
\* never touches the record of another tuple; and the records that exist
\* store pairwise different tuples, one per address.
C18_OneRecordPerTuple ==
    /\ DistinctTuplesDistinctKeys
    /\ [][/\ OneRecordPerTuple'
          /\ \A u \in Users, k \in RegistryKeys :
                (last'.op = "create_option" /\ CreateSeries(u, k)) =>
                    /\ option_context[k].initialized => FailedUnchanged
                    /\ \A j \in RegistryKeys \ {k} :
                          option_context'[j] = option_context[j]
                    /\ token' = token
                    /\ last'.err = "Ok" =>
                          (~option_context[k].initialized
                           /\ option_context'[k].initialized)]_vars

\* A Create-Series has just failed on the tuple of a series that has tokens
\* outstanding, while the put on the same assets exists as a second record.
C18_Witness ==
    /\ last = [op |-> "create_option", err |-> "AccountAlreadyInUse"]
    /\ \E k \in Keys : TotalSupply(k) > 0
    /\ Cardinality({k \in RegistryKeys : option_context[k].initialized}) = 2

\* The series is Active: it exists and has not reached its expiration.
Active(k) ==
    option_context[k].initialized /\ now < option_context[k].expiration

\* C19: a Create-Series succeeds only if strike_price > 0 and
\* expiration > now, and then the new record has total_supply = 0 and
\* exercised_amount = 0 and the series is Active; a failed Create-Series
\* creates no record; on a free address it fails with ExpirationInPast when
\* expiration <= now, equality included, and with InvalidStrikePrice when
\* strike_price = 0 (the expiration is looked at first when both are wrong).
C19_CreateSeriesValidation ==
    [][\A u \in Users, k \in CreateKeys :
          CreateSeries(u, k) =>
              /\ last'.err = "Ok" =>
                    /\ k.strike_price > 0
                    /\ k.expiration > now
                    /\ ~option_context[k].initialized
                    /\ TotalSupply(k)' = 0
                    /\ ExercisedAmount(k)' = 0
                    /\ Active(k)'
              /\ last'.err # "Ok" => FailedUnchanged
              /\ ~option_context[k].initialized =>
                    last'.err = IF k.expiration <= now THEN "ExpirationInPast"
                                ELSE IF k.strike_price = 0
                                THEN "InvalidStrikePrice"
                                ELSE "Ok"]_vars

\* A Create-Series has just failed with ExpirationInPast at the very second
\* of the expiration it asked for.
C19_Witness ==
    /\ last = [op |-> "create_option", err |-> "ExpirationInPast"]
    /\ now = Expiration
    /\ \E k \in CreateKeys :
          ~option_context[k].initialized /\ k.strike_price > 0

\* The short tokens of series k outstanding: what the callers hold.
ShortSupply(k) == SumOver(token, {UserRedemptionAccount(k, u) : u \in Users})

\* The collateral vault of series k covers what all outstanding short
\* tokens can still claim from it.
CollateralCovered(k) ==
    LET vault == token[CollateralVault(k)]
        short_supply == ShortSupply(k)
    IN
    (option_context[k].initialized /\ TotalSupply(k) > 0) =>
        /\ short_supply <= TotalSupply(k)
        /\ vault >= (vault * short_supply) \div TotalSupply(k)

\* C20: in every reachable state of a series with total_supply > 0 the
\* collateral vault holds at least floor(vault * short supply /
\* total_supply), and a Redeem of an amount up to the outstanding short
\* supply is never paid more collateral than the vault holds and never
\* fails for want of collateral in the vault.
C20_CollateralCovered ==
    [][/\ \A k \in Keys : CollateralCovered(k)'
       /\ last'.op = "redeem" =>
             \A k \in Keys :
                 LET vault == token[CollateralVault(k)]
                     short_supply == ShortSupply(k)
                 IN
                 (option_context[k].initialized /\ TotalSupply(k) > 0) =>
                     \A u \in Users, a \in Amounts :
                         (a <= short_supply /\ Redeem(u, k, a)) =>
                             /\ token'[CollateralVault(k)] >= 0
                             /\ (vault * a) \div TotalSupply(k) <= vault
                             /\ (a <= token[UserRedemptionAccount(k, u)])
                                   => last'.err # "InsufficientFunds"]_vars

\* A Redeem has just been paid out of the collateral vault, and short
\* tokens with a claim on what the vault still holds remain outstanding.
C20_Witness ==
    /\ Succeeded("redeem")
    /\ \E k \in Keys :
          /\ token[CollateralVault(k)] > 0
          /\ ShortSupply(k) > 0
          /\ TotalSupply(k) > ShortSupply(k)

\* The long tokens of series k outstanding: what the callers hold.
LongSupply(k) == SumOver(token, {UserOptionAccount(k, u) : u \in Users})

\* C21 (as claimed): after any sequence of operations the collateral vault
\* of a series holds at least the outstanding long-token supply, and an
\* Exercise of an amount the caller holds in long tokens never fails with
\* InsufficientCollateral.
C21_FullyBacked ==
    [][/\ \A k \in Keys : token'[CollateralVault(k)] >= LongSupply(k)'
       /\ last'.op = "exercise" =>
             \A u \in Users, k \in Keys, a \in Amounts, b \in Builds :
                 (/\ option_context[k].initialized
                  /\ a > 0
                  /\ a <= token[UserOptionAccount(k, u)]
                  /\ Exercise(u, k, a, b))
                     => last'.err # "InsufficientCollateral"]_vars

\* The records, the balances and the result that the state holds.
Outcome ==
    [option_context |-> option_context, token |-> token, err |-> last.err]

\* What an instruction returning res makes of the accounts.
Applied(res) ==
    [option_context |-> Committed(Accounts, res).option_context,
     token |-> Committed(Accounts, res).token,
     err |-> res.err]

\* C22: Mint, Exercise, Burn-Paired and Redeem-Consideration have no time
\* gate: the result and the effects of each are those its entry point
\* computes from the series record, the balances, the caller and the amount
\* alone, the same before and after expiration; none of them reads or moves
\* the clock, and none fails with OptionExpired or OptionNotExpired.
C22_NoTimeGate ==
    [][/\ last'.op \in {"mint", "exercise", "burn", "redeem_consideration"}
             => /\ now' = now
                /\ last'.err \notin {"OptionExpired", "OptionNotExpired"}
       /\ last'.op = "mint" =>
             \A u \in Users, k \in Keys, a \in Amounts :
                 Mint(u, k, a) => Outcome' = Applied(mint(Accounts, k, u, a))
       /\ last'.op = "burn" =>
             \A u \in Users, k \in Keys, a \in Amounts :
                 BurnPaired(u, k, a)
                     => Outcome' = Applied(burn_entry(Accounts, k, u, a))
       /\ last'.op = "exercise" =>
             \A u \in Users, k \in Keys, a \in Amounts, b \in Builds :
                 Exercise(u, k, a, b)
                     => Outcome' = Applied(exercise(Accounts, k, u, a, b))
       /\ last'.op = "redeem_consideration" =>
             \A u \in Users, k \in Keys :
                 RedeemConsideration(u, k)
                     => Outcome' = Applied(redeem_consideration(Accounts, k, u))]_vars

\* An Exercise has just succeeded on a series past its expiration.
C22_Witness ==
    /\ Succeeded("exercise")
    /\ \E k \in Keys : GatePassed(k) /\ ExercisedAmount(k) > 0

\* What identifies a series: its tuple, its token types and its vaults.
Identity(record) ==
    [collateral_mint |-> record.collateral_mint,
     consideration_mint |-> record.consideration_mint,
     strike_price |-> record.strike_price,
     expiration |-> record.expiration,
     is_put |-> record.is_put,
     option_mint |-> record.option_mint,
     redemption_mint |-> record.redemption_mint,
     collateral_vault |-> record.collateral_vault,
     consideration_vault |-> record.consideration_vault]

\* C23: once a series record exists, no operation, successful or not,
\* removes it or changes its collateral_asset, consideration_asset,
\* strike_price, expiration, is_put, long_asset_id, short_asset_id,
\* collateral_vault_id or consideration_vault_id, also when a redemption
\* has emptied both vaults.
C23_RecordPermanent ==
    [][\A k \in CreateKeys :
          option_context[k].initialized =>
              /\ option_context'[k].initialized
              /\ Identity(option_context'[k]) = Identity(option_context[k])]_vars

\* A Redeem has just emptied both vaults of a series that had been
\* exercised, and the record is still there.
C23_Witness ==
    /\ Succeeded("redeem")
    /\ \E k \in Keys :
          /\ option_context[k].initialized
          /\ ExercisedAmount(k) > 0
          /\ token[CollateralVault(k)] = 0
          /\ token[ConsiderationVault(k)] = 0

\* C24: a Mint, Exercise, Burn-Paired, Redeem or Redeem-Consideration call
\* on an existing series that supplies a collateral asset, consideration
\* asset, long token, short token, collateral vault or consideration vault
\* other than the one stored in the series record fails, before its handler
\* is entered, and leaves every record and balance unchanged: a step that
\* is not such a failure is not a call with a wrong identifier.
C24_IdentifiersMustMatch ==
    [][~FailedUnchanged =>
          \A k \in Keys :
              option_context[k].initialized =>
                  \A ctx \in SuppliedAccounts(k) :
                      ctx # StoredIdentifiers(option_context[k]) =>
                          \A u \in Users :
                              /\ \A a \in Amounts :
                                    /\ ~MintWith(u, k, a, ctx)
                                    /\ ~BurnPairedWith(u, k, a, ctx)
                                    /\ ~RedeemWith(u, k, a, ctx)
                                    /\ \A b \in Builds :
                                          ~ExerciseWith(u, k, a, b, ctx)
                              /\ ~RedeemConsiderationWith(u, k, ctx)]_vars

\* An Exercise has just been refused for its accounts, on a series whose
\* vault holds collateral, with long tokens outstanding.
C24_Witness ==
    /\ last = [op |-> "exercise", err |-> "ConstraintRaw"]
    /\ \E k \in Keys :
          /\ token[CollateralVault(k)] > 0
          /\ LongSupply(k) > 0

\* The instruction just processed failed with error e and changed nothing.
FailedWith(e) == last'.err = e /\ FailedUnchanged

\* C25: on an existing series an Exercise or Burn-Paired of an amount > 0
\* larger than the collateral vault balance fails with
\* InsufficientCollateral, no token burned or transferred; a Mint, Exercise,
\* Burn-Paired or Redeem of amount 0 fails with InvalidAmount, whatever the
\* time and the balances.
C25_AmountAndVaultChecks ==
    [][last'.op \in {"mint", "exercise", "burn", "redeem"} =>
          \A k \in Keys :
              option_context[k].initialized =>
                  \A u \in Users, a \in Amounts :
                      /\ (a > 0 /\ token[CollateralVault(k)] < a) =>
                            /\ BurnPaired(u, k, a)
                                  => FailedWith("InsufficientCollateral")
                            /\ \A b \in Builds :
                                  Exercise(u, k, a, b)
                                      => FailedWith("InsufficientCollateral")
                      /\ a = 0 =>
                            /\ Mint(u, k, a) => FailedWith("InvalidAmount")
                            /\ BurnPaired(u, k, a) => FailedWith("InvalidAmount")
                            /\ Redeem(u, k, a) => FailedWith("InvalidAmount")
                            /\ \A b \in Builds :
                                  Exercise(u, k, a, b)
                                      => FailedWith("InvalidAmount")]_vars

\* An Exercise has just failed with InsufficientCollateral although the
\* caller holds more long tokens than the vault holds collateral.
C25_Witness ==
    /\ last = [op |-> "exercise", err |-> "InsufficientCollateral"]
    /\ \E k \in Keys, u \in Users :
          token[UserOptionAccount(k, u)] > token[CollateralVault(k)]

\* C26 (as claimed, a run of one call being the least case): what a
\* Redeem-Consideration call transfers to a holder of s short tokens is at
\* most floor(V * s / total_supply), V being the consideration vault
\* balance before the call; a caller without short tokens is paid nothing.
C26_ClaimWithinShare ==
    [][\A u \in Users, k \in Keys :
          (RedeemConsideration(u, k) /\ last'.err = "Ok") =>
              LET V == token[ConsiderationVault(k)]
                  s == token[UserRedemptionAccount(k, u)]
              IN
              /\ TotalSupply(k) > 0
              /\ V - token'[ConsiderationVault(k)]
                    <= (V * s) \div TotalSupply(k)]_vars

\* The long tokens outstanding are what was minted and neither burned in
\* pairs nor exercised.
LongSupplyAccounted(k) ==
    option_context[k].initialized =>
        /\ LongSupply(k) = TotalSupply(k) - ExercisedAmount(k)
        /\ ExercisedAmount(k) <= TotalSupply(k)
        /\ \A u \in Users : token[UserOptionAccount(k, u)] <= TotalSupply(k)

\* C27: in every reachable state of a series the outstanding long-token
\* supply equals total_supply - exercised_amount, so exercised_amount <=
\* total_supply and no caller holds more long tokens than total_supply; a
\* Burn-Paired therefore never fails with MathOverflow at its decrement of
\* total_supply.
C27_LongSupplyAccounted ==
    [][/\ \A k \in Keys : LongSupplyAccounted(k)'
       /\ last'.op = "burn" => last'.err # "MathOverflow"]_vars

\* A Burn-Paired has just taken total_supply down to exercised_amount on a
\* series that had been exercised: no long token is left.
C27_Witness ==
    /\ Succeeded("burn")
    /\ \E k \in Keys :
          /\ ExercisedAmount(k) > 0
          /\ TotalSupply(k) = ExercisedAmount(k)

\* C28: in every reachable state the outstanding short-token supply of a
\* series is at most total_supply; a Redeem that computes its payouts and
\* passes its burn of the caller's short tokens computes a collateral and a
\* consideration payout that are each at most the balance of their vault,
\* and neither vault transfer fails for lack of funds.
C28_PayoutsWithinVaults ==
    [][/\ \A k \in Keys :
             option_context'[k].initialized => ShortSupply(k)' <= TotalSupply(k)'
       /\ last'.op = "redeem" =>
             \A k \in Keys, u \in Users, a \in Amounts :
                 LET collateral_payout ==
                         calculate_pro_rata_share(token[CollateralVault(k)], a,
                                                  TotalSupply(k))
                     consideration_payout ==
                         calculate_pro_rata_share(token[ConsiderationVault(k)], a,
                                                  TotalSupply(k))
                 IN
                 (/\ GatePassed(k)
                  /\ a > 0
                  /\ a <= token[UserRedemptionAccount(k, u)]
                  /\ collateral_payout.err = "Ok"
                  /\ consideration_payout.err = "Ok"
                  /\ Redeem(u, k, a)) =>
                     /\ collateral_payout.val <= token[CollateralVault(k)]
                     /\ consideration_payout.val <= token[ConsiderationVault(k)]
                     /\ last'.err # "InsufficientFunds"]_vars

\* A Redeem has just been paid while other short tokens remain outstanding
\* and the consideration vault still holds strike payments.
C28_Witness ==
    /\ Succeeded("redeem")
    /\ \E k \in Keys :
          /\ ShortSupply(k) > 0
          /\ ShortSupply(k) < TotalSupply(k)
          /\ token[ConsiderationVault(k)] > 0

\* What a Redeem of amount a on series k computes as its payouts in the
\* current state.
CollateralPayout(k, a) ==
    calculate_pro_rata_share(token[CollateralVault(k)], a, TotalSupply(k))

ConsiderationPayout(k, a) ==
    calculate_pro_rata_share(token[ConsiderationVault(k)], a, TotalSupply(k))

\* A payout computed now is at most the one computed a step earlier.
NotAbove(after, before) ==
    (after.err = "Ok" /\ before.err = "Ok") => after.val <= before.val

\* C29: a successful Redeem of amount a receives exactly the collateral and
\* consideration payouts computed on entry, and a Redeem step leaves, for
\* every amount, payouts that are at most those computed before it; so in a
\* run of post-expiry Redeem calls with nothing else in between, a Redeem of
\* amount a is paid no more from either vault than any earlier Redeem of the
\* same amount.
C29_LaterNotOverpaid ==
    [][last'.op = "redeem" =>
          \A k \in Keys :
              option_context[k].initialized =>
                  \A a \in Amounts :
                      /\ NotAbove(CollateralPayout(k, a)', CollateralPayout(k, a))
                      /\ NotAbove(ConsiderationPayout(k, a)',
                                  ConsiderationPayout(k, a))
                      /\ \A u \in Users :
                            (last'.err = "Ok" /\ Redeem(u, k, a)) =>
                                /\ token'[UserCollateralAccount(u)]
                                      = token[UserCollateralAccount(u)]
                                           + CollateralPayout(k, a).val
                                /\ token'[UserConsiderationAccount(u)]
                                      = token[UserConsiderationAccount(u)]
                                           + ConsiderationPayout(k, a).val]_vars

\* A Redeem has just burned the last short tokens of a series that had
\* issued more than one call can redeem: it came after an earlier Redeem.
C29_Witness ==
    /\ Succeeded("redeem")
    /\ \E k \in Keys :
          /\ TotalSupply(k) > MaxAmount
          /\ ShortSupply(k) = 0

\* C30 (as claimed): once Redeem calls, with no Mint, Exercise or
\* Burn-Paired in between, have burned every outstanding short token of a
\* series, each vault holds strictly less than the number of those Redeem
\* calls.
C30_DrainLeavesDust ==
    \A k \in Keys :
        (/\ option_context[k].initialized
         /\ redeem_calls > 0
         /\ ShortSupply(k) = 0) =>
            /\ token[CollateralVault(k)] < redeem_calls
            /\ token[ConsiderationVault(k)] < redeem_calls

\* C31: after every successful create_option the collateral vault holds
\* the asset stored as the record's collateral_mint and the consideration
\* vault the asset stored as its consideration_mint.
C31_VaultsHoldStoredAssets ==
    \A k \in RegistryKeys :
        option_context[k].initialized =>
            /\ vault_mint[k].collateral = option_context[k].collateral_mint
            /\ vault_mint[k].consideration = option_context[k].consideration_mint

\* What a buy order still has to deliver for its unfilled size, at the
\* scale of the market's base mint.
QuoteOwed(o) ==
    (order[o].price * remaining(order[o]))
        \div Pow10(mint_decimals[market[order[o].market].base_mint])

\* The escrow of order o covers what remains to be delivered.
EscrowCovers(o) ==
    /\ order[o].filled <= order[o].size
    /\ ~order[o].is_buy =>
          ledger[EscrowKey(o)].amount = order[o].size - order[o].filled
    /\ order[o].is_buy => ledger[EscrowKey(o)].amount >= QuoteOwed(o)

\* C32: every order placed has filled <= size and an escrow that covers
\* what remains to be delivered: size - filled base tokens for a sell
\* order, at least floor(price * (size - filled) / 10^base_decimals) quote
\* tokens for a buy order.
C32_EscrowSufficient ==
    \A o \in OrderKeys : order[o].initialized => EscrowCovers(o)

\* C33: cancel_order by the owner of an order with remaining > 0, asking
\* for the escrowed mint back, succeeds, empties the escrow into the
\* caller's return account and closes the order; a call by anyone else
\* fails with UnauthorizedAccess and a call on a fully filled order fails
\* with OrderFullyFilled.
C33_CancelReturnsEscrow ==
    [][\A u \in Users, o \in OrderKeys :
          (/\ call'.op = "cancel_order"
           /\ order[o].initialized
           /\ CancelOrder(u, o, ledger[EscrowKey(o)].mint)) =>
              LET return_account ==
                      UserTokenAccount(ledger[EscrowKey(o)].mint, u)
              IN
              /\ order[o].owner # UserKey(u) =>
                    call'.err = "UnauthorizedAccess"
              /\ (order[o].owner = UserKey(u) /\ remaining(order[o]) = 0) =>
                    call'.err = "OrderFullyFilled"
              /\ (order[o].owner = UserKey(u) /\ remaining(order[o]) > 0) =>
                    /\ call'.err = "Ok"
                    /\ ledger'[EscrowKey(o)].amount = 0
                    /\ ledger'[return_account].amount =
                          ledger[return_account].amount
                              + ledger[EscrowKey(o)].amount
                    /\ ~order'[o].initialized]_vars

\* The asset the taker of order o has to pay: base for a buy order, quote
\* for a sell order.
PaidMint(o) ==
    IF order[o].is_buy THEN market[order[o].market].base_mint
    ELSE market[order[o].market].quote_mint

\* C34: after every successful fill_order the account credited with the
\* taker's payment is an account of the asset the taker has to pay (base
\* for a buy order, quote for a sell order) owned by the order's owner.
C34_FillPaysMaker ==
    (call.op = "fill_order" /\ call.err = "Ok") =>
        /\ ledger[call.maker_receive_account].authority = order[call.order].owner
        /\ ledger[call.maker_receive_account].mint = PaidMint(call.order)

=============================================================================
